---- MODULE Spec2Model ----
(***************************************************************************)
(* A model of the slinky daemon's core: the Context Manager                *)
(* (internal/context), the encrypted cache and the resolver, and the mount *)
(* backends.  Each subsystem has its own specification over the shared     *)
(* variables; the variables a specification does not use stay at their     *)
(* initial value.                                                          *)
(***************************************************************************)
EXTENDS Integers, FiniteSets, Sequences, TLC

\* ------------------------------------------------------------------ bounds
NumDirs == 2
MaxPid == 2

\* Directories are numbered; the numeric order stands for the alphabetical
\* order of the canonical paths (slices.Sorted over the activation keys).
Dirs == 1..NumDirs
\* Session pids; 0 is the "no session tracking" argument of Activate/Deactivate.
Pids == 1..MaxPid
\* File names a config may define.  netrc is a native template that reads
\* env "TOKEN"; npmrc is a command-mode file.
Names == {"netrc", "npmrc"}
EnvKeys == {"TOKEN", "HOME"}

\* The absent map entry and the nil map, as values comparable with the others.
NoAct == [none |-> TRUE]
NilEnv == [k \in {"<nil>"} |-> ""]
\* The environments a caller may pass: none (nil), or a captured map.
Envs == {NilEnv, [k \in {"TOKEN", "HOME"} |-> "t1"]}

\* The FileConfig of each name, by the fields the model reads: netrc is
\* rendered natively from the template file netrc.tpl, npmrc by a command.
FileCfg(name) ==
  IF name = "npmrc" THEN [render |-> "command", template |-> ""]
  ELSE [render |-> "native", template |-> "netrc.tpl"]
\* What can be at the path of netrc.tpl: a template, by the number of its
\* text and the env keys the text references through env and envDefault;
\* text that does not parse; or nothing readable.
TplToken == [there |-> TRUE, parses |-> TRUE, text |-> 1, refs |-> {"TOKEN"}, mtime |-> 1]
TplBoth == [there |-> TRUE, parses |-> TRUE, text |-> 2, refs |-> {"TOKEN", "HOME"}, mtime |-> 2]
TplBroken == [there |-> TRUE, parses |-> FALSE, text |-> 3, refs |-> {}, mtime |-> 3]
TplMissing == [there |-> FALSE, parses |-> FALSE, text |-> 0, refs |-> {}, mtime |-> 0]
TplFiles == {TplToken, TplBoth, TplBroken, TplMissing}
\* The text of TplBoth written over TplToken with the modification time
\* kept, as a copy that preserves the times or a write within the
\* granularity of the clock leaves it.
TplTouched == [TplBoth EXCEPT !.mtime = TplToken.mtime]
\* The texts text/template parses.
TemplateParses(text) == text \in {TplToken.text, TplBoth.text}
\* No entry for the path in the cache of the renderer.
NoTplCache == [none |-> TRUE]

VARIABLES
  global,       \* Manager.global.Files: the global file names
  activations,  \* Manager.activations: dir -> Activation (NoAct when absent)
  effective,    \* Manager.effective: name -> EffectiveFile
  pidToDirs,    \* Manager.pidToDirs: pid -> set of dirs (a map: DOMAIN = keys)
  last,         \* the last call and what it returned
  joined,       \* refcount scenario: the pids that have activated RcDir
  left,         \* refcount scenario: those of them that have deactivated it
  activateMu,   \* Manager.activateMu: TRUE while a writer holds it
  muW,          \* Manager.mu: TRUE while write-locked
  muR,          \* Manager.mu: the readers holding the read lock
  wpc,          \* where the writer holding activateMu is in its call
  call,         \* that writer's call: arguments and locals
  committed,    \* the maps as of the last mu.Unlock
  rpc,          \* each reader's position
  seen,         \* what each reader's call returned
  cipher,       \* SecretCache.cipher: the identity of the current cipher
  swapPc,       \* where the SwapCipher call in progress is
  entries,      \* SecretCache.entries
  world,        \* the version of the secret that a render reads
  rs,           \* the Resolve calls in progress
  refreshing,   \* SecretResolver.refreshing
  refreshers,   \* the refresh goroutine of each name
  inflight,     \* how many refresh goroutines run for each name
  backend,      \* the mount backend in use
  reconfigCh,   \* Backend.reconfigCh: the number of signals in the channel
  signal,       \* what the call of Backend.Reconfigure in the last step did
  disk,         \* tmpfs: the files on the RAM disk, by what they were rendered from
  rendered,     \* tmpfs: Backend.rendered
  todo,         \* tmpfs: the files the pass in progress has yet to render
  fifos,        \* fifo: Backend.fifos
  handle,       \* fuse: an open secretHandle
  served,       \* what the read that has just happened was served
  probe,        \* a cache entry under test: its TTL, its age, what it answers
  dispatcher,   \* reload.Dispatcher: its prologue hooks, its rules, its kill function
  dispatch,     \* the Dispatch call: its position, the hooks it has invoked so far
  conns,        \* the control connections and what handleConn has done on each
  sem,          \* Server.sem: the number of tokens in the semaphore channel
  handlers,     \* how many handler goroutines are at each point of handleConn
  accepted,     \* what Serve did with the connection it accepted last
  sockFile,     \* the socket path: 0 when no file is there, else the daemon whose bind made the file
  listening,    \* the daemons that hold an open listener
  lpc,          \* where each daemon's Listen call is
  stolen,       \* the daemons whose socket file a Listen removed while they were listening
  cfgDisk,      \* the config file on disk
  cfgCurrent,   \* ConfigWatcher.current
  reloads,      \* the calls of ConfigWatcher.reload in progress
  cfgCall,      \* what the reload step that has just happened did
  cfgFailed,    \* whether a reload has failed since current was last assigned
  mpc,          \* where the call of Backend.Mount is
  ctxDone,      \* whether the context of Mount has been cancelled
  mret,         \* what Mount has returned
  mounted,      \* tmpfs: the RAM disk is mounted at the mount point
  toScrub,      \* tmpfs: the files the scrub in progress has yet to scrub
  departed,     \* tmpfs: the files the reconcile in progress found no longer effective
  scrubErrs,    \* tmpfs: the files whose last scrub failed
  rawRemoved,   \* tmpfs: the files removed while they still held content
  cancels,      \* fifo: Backend.cancels
  tasks,        \* fifo: the number of serve goroutines with a live context, per file
  lingering,    \* fifo: the files with a cancelled serve goroutine that has not returned yet
  pipes,        \* fifo: the FIFOs on disk
  fifoErrs,     \* fifo: the files for which a filesystem operation has failed
  scrubAt,      \* tmpfs: the file scrubFile has zeroed and has yet to remove
  fsys,         \* symlink manager: what is at each link and backup path
  managed,      \* symlink manager: file name -> link path it manages
  slret,        \* symlink manager: the last call and what it returned
  fpIn,         \* cache key: the file configuration and environment given
  fpKey,        \* cache key: the key computed for them
  fpDone,       \* cache key: whether ComputeCacheKey has returned
  lkpos,        \* lock order: the call each goroutine is in and how many of its lock operations are done
  cbDue,        \* where the onChange callback of the mutation committed last is: none due, at the symlinks, at backend.Reconfigure
  atSignal,     \* the effective set as of the most recent call of backend.Reconfigure by the callback
  cbpc,         \* each mutating goroutine's position in Activate, Deactivate or RemoveSession
  marg,         \* the map each goroutine's recompute returned, with the number of its commit
  commits,      \* the number of effective sets committed so far
  applied,      \* the map the last callback to start was given, with the number of its commit
  running,      \* the callbacks that have started and not returned
  held,         \* the config the resolver, the backend and the atomic pointer currentCfg hold
  hookpos,      \* the prologue hooks each reload's Dispatch has run
  cfgSeq,       \* the number of configs the watcher has committed
  mine,         \* the number of the commit each reload made
  dispatched,   \* the numbers of the commits, in the order their Dispatch started
  currentCfg,   \* runForeground's currentCfg: the config stored last
  cwCurrent,    \* the config watcher's current config
  cwSeq,        \* the number of configs the daemon's watcher has committed
  loop,         \* where runForeground's mount loop is
  loopCfg,      \* newCfg of the restart under way
  restartCh,    \* restartCh: the number of buffered restart signals
  sigpc,        \* where the signal handler is after SIGINT or SIGTERM
  cbArg,        \* the onChange callback under way: where it is, the effective set it was given, the mount point it loaded
  reloading,    \* the reloads of the config watcher under way: where each Dispatch is and what it holds
  tplFile,      \* the template file of netrc: its text, its modification time and the env keys the text references, or no readable file
  tplCache,     \* sharedNativeRenderer.cache[tplPath]: the template text cached with the modification time it was read at
  sweep,        \* Reaper.sweep in progress: the pids of its snapshot it has yet to probe, and what it has done so far
  fd,           \* fifo: the FIFO a serve goroutine has open for writing, and what it resolved
  upc,          \* where a call of Backend.Unmount is
  uScrub,       \* tmpfs: the files the scrubAll of Unmount has yet to scrub
  uAt           \* tmpfs: the file the scrubFile of Unmount has zeroed and has yet to remove

ctxVars == <<global, activations, effective, pidToDirs, last>>
rcVars == <<joined, left>>
lockVars == <<activateMu, muW, muR, wpc, call, committed, rpc, seen>>
resVars == <<cipher, swapPc, entries, world, rs, refreshing, refreshers, inflight>>
vars == <<global, activations, effective, pidToDirs, last, joined, left,
          activateMu, muW, muR, wpc, call, committed, rpc, seen,
          cipher, swapPc, entries, world, rs, refreshing, refreshers, inflight,
          backend, reconfigCh, signal, disk, rendered, todo, fifos, handle, served,
          probe, dispatcher, dispatch, conns,
          sem, handlers, accepted,
          sockFile, listening, lpc, stolen,
          cfgDisk, cfgCurrent, reloads, cfgCall, cfgFailed,
          mpc, ctxDone, mret, mounted, toScrub, departed, scrubErrs, rawRemoved, cancels, tasks, lingering, pipes, fifoErrs, scrubAt,
          fsys, managed, slret,
          fpIn, fpKey, fpDone,
          lkpos,
          cbDue, atSignal,
          cbpc, marg, commits, applied, running,
          held, hookpos, cfgSeq, mine, dispatched,
          currentCfg, cwCurrent, cwSeq, loop, loopCfg, restartCh, sigpc, cbArg, reloading,
          tplFile, tplCache,
          sweep,
          fd,
          upc, uScrub, uAt>>
beVars == <<backend, reconfigCh, signal, disk, rendered, todo, fifos, handle, served>>
\* The groups of the later subsystems.
srvVars == <<sem, handlers, accepted>>
lsnVars == <<sockFile, listening, lpc, stolen>>
cfgVars == <<cfgDisk, cfgCurrent, reloads, cfgCall, cfgFailed>>
mntVars == <<mpc, ctxDone, mret, mounted, toScrub, departed, scrubErrs, rawRemoved, cancels, tasks, lingering, pipes, fifoErrs, scrubAt>>
slkVars == <<fsys, managed, slret>>
fpVars == <<fpIn, fpKey, fpDone>>
lkVars == <<lkpos>>
cvVars == <<cbDue, atSignal>>
cbVars == <<cbpc, marg, commits, applied, running>>
roVars == <<held, hookpos, cfgSeq, mine, dispatched>>
dmVars == <<currentCfg, cwCurrent, cwSeq, loop, loopCfg, restartCh, sigpc, cbArg, reloading>>
tplVars == <<tplFile, tplCache>>
swVars == <<sweep>>
rdVars == <<fd>>
umVars == <<upc, uScrub, uAt>>
moreVars == <<srvVars, lsnVars, cfgVars, mntVars, slkVars, fpVars, lkVars, cvVars, cbVars, roVars, dmVars, tplVars, swVars, rdVars, umVars>>
\* What each specification leaves alone.
entVars == <<probe>>
dspVars == <<dispatcher, dispatch>>
ctlVars == <<conns>>
outsideCtx == <<rcVars, lockVars, resVars, beVars, entVars, dspVars, ctlVars, moreVars>>
outsideRc == <<lockVars, resVars, beVars, entVars, dspVars, ctlVars, moreVars>>
outsideConc == <<rcVars, resVars, beVars, entVars, dspVars, ctlVars, moreVars>>
outsideRes == <<ctxVars, rcVars, lockVars, beVars, entVars, dspVars, ctlVars, moreVars>>
outsideBe == <<rcVars, lockVars, resVars, entVars, dspVars, ctlVars, moreVars>>
outsideEnt == <<ctxVars, rcVars, lockVars, resVars, beVars, dspVars, ctlVars, moreVars>>
outsideDsp == <<ctxVars, rcVars, lockVars, resVars, beVars, entVars, ctlVars, moreVars>>
outsideCtl == <<rcVars, lockVars, beVars, entVars, dspVars, moreVars>>

\* What the later specifications leave alone.
coreVars == <<ctxVars, rcVars, lockVars, resVars, beVars, entVars, dspVars, ctlVars>>
restSrv == <<lsnVars, cfgVars, mntVars, slkVars, fpVars, lkVars, cvVars, cbVars, roVars, dmVars, tplVars, swVars, rdVars, umVars>>
outsideSrv == <<coreVars, restSrv>>
restLsn == <<srvVars, cfgVars, mntVars, slkVars, fpVars, lkVars, cvVars, cbVars, roVars, dmVars, tplVars, swVars, rdVars, umVars>>
outsideLsn == <<coreVars, restLsn>>
restCfg == <<srvVars, lsnVars, mntVars, slkVars, fpVars, lkVars, cvVars, cbVars, roVars, dmVars, tplVars, swVars, rdVars, umVars>>
outsideCfg == <<coreVars, restCfg>>
restMnt == <<srvVars, lsnVars, cfgVars, slkVars, fpVars, lkVars, cvVars, cbVars, roVars, dmVars, tplVars, swVars, rdVars, umVars>>
outsideMnt == <<coreVars, restMnt>>
restSlk == <<srvVars, lsnVars, cfgVars, mntVars, fpVars, lkVars, cvVars, cbVars, roVars, dmVars, tplVars, swVars, rdVars, umVars>>
outsideSlk == <<coreVars, restSlk>>
restFp == <<srvVars, lsnVars, cfgVars, mntVars, slkVars, lkVars, cvVars, cbVars, roVars, dmVars, tplVars, swVars, rdVars, umVars>>
outsideFp == <<coreVars, restFp>>
restLk == <<srvVars, lsnVars, cfgVars, mntVars, slkVars, fpVars, cvVars, cbVars, roVars, dmVars, tplVars, swVars, rdVars, umVars>>
outsideLk == <<coreVars, restLk>>
restCv == <<srvVars, lsnVars, cfgVars, mntVars, slkVars, fpVars, lkVars, cbVars, roVars, dmVars, tplVars, swVars, rdVars, umVars>>
outsideCv == <<coreVars, restCv>>
restCb == <<srvVars, lsnVars, cfgVars, mntVars, slkVars, fpVars, lkVars, cvVars, roVars, dmVars, tplVars, swVars, rdVars, umVars>>
outsideCb == <<coreVars, restCb>>
restRo == <<srvVars, lsnVars, cfgVars, mntVars, slkVars, fpVars, lkVars, cvVars, cbVars, dmVars, tplVars, swVars, rdVars, umVars>>
outsideRo == <<coreVars, restRo>>
restDm == <<srvVars, lsnVars, cfgVars, mntVars, slkVars, fpVars, lkVars, cvVars, cbVars, roVars, tplVars, swVars, rdVars, umVars>>
outsideDm == <<coreVars, restDm>>
restTpl == <<srvVars, lsnVars, cfgVars, mntVars, slkVars, fpVars, lkVars, cvVars, cbVars, roVars, dmVars, swVars, rdVars, umVars>>
outsideTpl == <<coreVars, restTpl>>
restSw == <<srvVars, lsnVars, cfgVars, mntVars, slkVars, fpVars, lkVars, cvVars, cbVars, roVars, dmVars, tplVars, rdVars, umVars>>
outsideSw == <<coreVars, restSw>>
restRd == <<srvVars, lsnVars, cfgVars, mntVars, slkVars, fpVars, lkVars, cvVars, cbVars, roVars, dmVars, tplVars, swVars, umVars>>
outsideRd == <<coreVars, restRd>>
restUm == <<srvVars, lsnVars, cfgVars, mntVars, slkVars, fpVars, lkVars, cvVars, cbVars, roVars, dmVars, tplVars, swVars, rdVars>>
outsideUm == <<coreVars, restUm>>

\* ------------------------------------------------------- context manager

\* render.ExtractEnvVars: the env keys the template of cfg references, or
\* nil (NilVars) for a command-mode file, a file without template, a
\* template that cannot be read and a template that does not parse.
NilVars == {"<nil>"}
ExtractEnvVars(cfg) ==
  IF cfg.render = "command" \/ cfg.template = "" THEN NilVars
  ELSE IF ~tplFile.there THEN NilVars
  ELSE IF ~tplFile.parses THEN NilVars
  ELSE tplFile.refs

\* render.FilterEnv: nil stays nil; a command-mode file keeps the keys of
\* the allowlist; a native file keeps the keys its template references, and
\* the whole env when ExtractEnvVars returns nil.
CmdEnvAllowlist == {"HOME", "USER", "LOGNAME", "PATH", "SHELL", "TERM", "LANG"}
FilterEnv(cfg, env) ==
  IF env = NilEnv THEN NilEnv
  ELSE IF cfg.render = "command"
    THEN [k \in (DOMAIN env) \cap CmdEnvAllowlist |-> env[k]]
  ELSE LET referenced == ExtractEnvVars(cfg)
       IN IF referenced = NilVars THEN env
          ELSE [k \in (DOMAIN env) \cap referenced |-> env[k]]

ActiveDirs(A) == {d \in Dirs : A[d] # NoAct}

\* The env merged for the global files: maps.Copy over the activations in
\* sorted order, so for each key the last activation that sets it wins.
GlobalEnv(A) ==
  IF ActiveDirs(A) = {} THEN NilEnv
  ELSE LET has(k) == {d \in ActiveDirs(A) : k \in DOMAIN A[d].env}
           top(k) == CHOOSE d \in has(k) : \A e \in has(k) : e <= d
       IN [k \in {x \in EnvKeys : has(x) # {}} |-> A[top(k)].env[k]]

\* recompute's owners check: two different activations define one name.
Conflict(A) ==
  \E d1, d2 \in ActiveDirs(A) :
    d1 # d2 /\ A[d1].overrides \cap A[d2].overrides # {}

\* recompute's result when there is no conflict.  An EffectiveFile is the
\* FileConfig (named by the layer it comes from: 0 is the global config) and
\* the filtered env.
RecomputeGlobalWins(A, g) ==
  LET owners(n) == {d \in ActiveDirs(A) : n \in A[d].overrides}
      ownerOf(n) == CHOOSE d \in owners(n) : \A e \in owners(n) : e <= d
      names == g \cup UNION {A[d].overrides : d \in ActiveDirs(A)}
  IN [n \in names |->
        IF owners(n) # {} /\ n \notin g
          THEN [src |-> ownerOf(n), env |-> FilterEnv(FileCfg(n), A[ownerOf(n)].env)]
          ELSE [src |-> 0, env |-> FilterEnv(FileCfg(n), GlobalEnv(A))]]
Recompute(A, g) ==
  LET owners(n) == {d \in ActiveDirs(A) : n \in A[d].overrides}
      ownerOf(n) == CHOOSE d \in owners(n) : \A e \in owners(n) : e <= d
      names == g \cup UNION {A[d].overrides : d \in ActiveDirs(A)}
  IN [n \in names |->
        IF owners(n) # {}
          THEN [src |-> ownerOf(n), env |-> FilterEnv(FileCfg(n), A[ownerOf(n)].env)]
          ELSE [src |-> 0, env |-> FilterEnv(FileCfg(n), GlobalEnv(A))]]

TplIdle == tplFile = TplToken /\ tplCache = NoTplCache

\* pidToDirs helpers: the Go map with its keys.
P2DGet(P, pid) == IF pid \in DOMAIN P THEN P[pid] ELSE {}
P2DSet(P, pid, ds) == [p \in (DOMAIN P) \cup {pid} |-> IF p = pid THEN ds ELSE P[p]]
P2DDel(P, pid) == [p \in (DOMAIN P) \ {pid} |-> P[p]]
P2DDropKeepsEmpty(P, pid, dir) ==
  IF pid \notin DOMAIN P THEN P ELSE [P EXCEPT ![pid] = @ \ {dir}]
\* delete(m.pidToDirs[pid], dir); if len == 0 { delete(m.pidToDirs, pid) }
P2DDrop(P, pid, dir) ==
  IF pid \notin DOMAIN P THEN P
  ELSE IF P[pid] \ {dir} = {} THEN P2DDel(P, pid)
  ELSE P2DSet(P, pid, P[pid] \ {dir})

\* Activate, lines 172-189: install the new activation for dir, keeping the
\* sessions of a previous activation of dir, and track pid.
InstallFresh(A, P, dir, env, pid, files) ==
  [acts |-> [A EXCEPT ![dir] = [env |-> env, overrides |-> files,
                                sessions |-> IF pid > 0 THEN {pid} ELSE {}]],
   p2d |-> IF pid > 0 THEN P2DSet(P, pid, P2DGet(P, pid) \cup {dir}) ELSE P]
Install(A, P, dir, env, pid, files) ==
  LET old == A[dir]
      sess == (IF old # NoAct THEN old.sessions ELSE {})
              \cup (IF pid > 0 THEN {pid} ELSE {})
      act == [env |-> env, overrides |-> files, sessions |-> sess]
  IN [acts |-> [A EXCEPT ![dir] = act],
      p2d |-> IF pid > 0 THEN P2DSet(P, pid, P2DGet(P, pid) \cup {dir}) ELSE P]

\* Activate, lines 191-213: remove pid from every other activation it
\* references; an activation left without sessions is dropped and remembered.
AutoDeactivateSkip(A, P, dir, pid) ==
  [acts |-> A, p2d |-> P, removed |-> {}]
AutoDeactivate(A, P, dir, pid) ==
  IF pid = 0 THEN [acts |-> A, p2d |-> P, removed |-> {}]
  ELSE LET others == P2DGet(P, pid) \ {dir}
           gone == {d \in others : A[d] # NoAct /\ A[d].sessions \ {pid} = {}}
       IN [acts |-> [d \in Dirs |->
                      IF d \in gone THEN NoAct
                      ELSE IF d \in others /\ A[d] # NoAct
                        THEN [A[d] EXCEPT !.sessions = @ \ {pid}]
                      ELSE A[d]],
           p2d |-> P2DSet(P, pid, P2DGet(P, pid) \ others),
           removed |-> gone]

\* Activate, lines 216-237: the rollback after a conflict.  A0 is the map
\* before the call (it supplies old and the removed activations' objects),
\* A and P the tentative state.
Rollback(A0, A, P, removed, dir, pid) ==
  LET old == A0[dir]
      A3 == [d \in Dirs |->
               IF d \in removed
                 THEN [A0[d] EXCEPT !.sessions = (@ \ {pid}) \cup {pid}]
               ELSE IF d = dir THEN old
               ELSE A[d]]
      P3 == IF removed # {} THEN P2DSet(P, pid, P2DGet(P, pid) \cup removed) ELSE P
      P4 == IF pid > 0 /\ (old = NoAct \/ pid \notin old.sessions)
              THEN P2DDrop(P3, pid, dir)
              ELSE P3
  IN [acts |-> A3, p2d |-> P4]

\* What the auto-deactivation of a call did, for the record of the last call:
\* "dropped" an activation, took the pid out of one that is "kept", or "none".
AutoTag(A, P, dir, pid) ==
  LET others == IF pid > 0 THEN P2DGet(P, pid) \ {dir} ELSE {}
  IN IF \E d \in others : A[d] # NoAct /\ A[d].sessions \ {pid} = {} THEN "dropped"
     ELSE IF \E d \in others : A[d] # NoAct /\ pid \in A[d].sessions THEN "kept"
     ELSE "none"

\* recompute as its callers see it: the map, or nil (read as empty) with the
\* conflict error.
NilEffective == [n \in {} |-> 0]
RecomputeStale(A, g) == effective
RecomputeOrNil(A, g) == IF Conflict(A) THEN NilEffective ELSE Recompute(A, g)

\* Manager.Activate(dir, env, pid); files is what the project configs found
\* by DiscoverLayers define at the time of the call.
Activate(dir, env, pid, files) ==
  LET i == Install(activations, pidToDirs, dir, env, pid, files)
      a == AutoDeactivate(i.acts, i.p2d, dir, pid)
      tag == AutoTag(activations, pidToDirs, dir, pid)
  IN IF Conflict(a.acts)
       THEN LET r == Rollback(activations, a.acts, a.p2d, a.removed, dir, pid)
            IN /\ activations' = r.acts
               /\ pidToDirs' = r.p2d
               /\ UNCHANGED <<effective, global>>
               /\ last' = [had |-> {}, op |-> "Activate", err |-> "conflict", auto |-> tag]
       ELSE /\ activations' = a.acts
            /\ pidToDirs' = a.p2d
            /\ effective' = Recompute(a.acts, global)
            /\ UNCHANGED global
            /\ last' = [had |-> {}, op |-> "Activate", err |-> "nil", auto |-> tag]

\* Manager.Activate as a function of the manager's maps: the maps it leaves
\* and the error it returns.
ActivateMaps(A, P, E, g, dir, env, pid, files) ==
  LET i == Install(A, P, dir, env, pid, files)
      a == AutoDeactivate(i.acts, i.p2d, dir, pid)
  IN IF Conflict(a.acts)
       THEN LET r == Rollback(A, a.acts, a.p2d, a.removed, dir, pid)
            IN [acts |-> r.acts, p2d |-> r.p2d, eff |-> E, err |-> "conflict"]
       ELSE [acts |-> a.acts, p2d |-> a.p2d, eff |-> Recompute(a.acts, g), err |-> "nil"]

\* Deactivate, lines 264-285: the maps after removing session pid (pid > 0)
\* or force-removing the activation (pid = 0).  keep tells whether the
\* activation stays because other sessions remain.
DeactivateForce(A, P, dir, pid) ==
  [acts |-> [A EXCEPT ![dir] = NoAct], p2d |-> P2DDrop(P, pid, dir), keep |-> FALSE]
DeactivateMaps(A, P, dir, pid) ==
  LET act == A[dir]
      sess == IF pid > 0 THEN act.sessions \ {pid} ELSE act.sessions
      P1 == IF pid > 0 THEN P2DDrop(P, pid, dir) ELSE P
  IN IF pid > 0 /\ sess # {}
       THEN [acts |-> [A EXCEPT ![dir] = [act EXCEPT !.sessions = sess]],
             p2d |-> P1, keep |-> TRUE]
       ELSE [acts |-> [A EXCEPT ![dir] = NoAct],
             p2d |-> [p \in {q \in DOMAIN P1 : ~(q \in sess /\ P1[q] \ {dir} = {})} |->
                        IF p \in sess THEN P1[p] \ {dir} ELSE P1[p]],
             keep |-> FALSE]

\* Manager.Deactivate(dir, pid).  The record of the call notes a removal
\* "forced" on an activation that several sessions referenced, and the files
\* that the activation it removed had.
Deactivate(dir, pid) ==
  IF activations[dir] = NoAct
    THEN /\ UNCHANGED <<global, activations, effective, pidToDirs>>
         /\ last' = [had |-> {}, op |-> "Deactivate", err |-> "unknown", auto |-> "none"]
    ELSE LET r == DeactivateMaps(activations, pidToDirs, dir, pid)
         IN /\ activations' = r.acts
            /\ pidToDirs' = r.p2d
            /\ effective' = IF r.keep THEN effective
                            ELSE RecomputeOrNil(r.acts, global)
            /\ UNCHANGED global
            /\ last' = [had |-> IF r.keep THEN {} ELSE activations[dir].overrides,
                        op |-> "Deactivate",
                        auto |-> IF pid = 0 /\ Cardinality(activations[dir].sessions) > 1
                                   THEN "forced" ELSE "none",
                        err |-> IF r.keep THEN "kept" ELSE "nil"]

\* RemoveSession, lines 306-324: the maps after removing pid everywhere.
RemoveSessionKeep(A, P, pid) ==
  [acts |-> [d \in Dirs |->
               IF d \in P[pid] /\ A[d] # NoAct
                 THEN [A[d] EXCEPT !.sessions = @ \ {pid}]
                 ELSE A[d]],
   p2d |-> P2DDel(P, pid),
   deactivated |-> {}]
RemoveSessionMaps(A, P, pid) ==
  LET dirs == P[pid]
      gone == {d \in dirs : A[d] # NoAct /\ A[d].sessions \ {pid} = {}}
  IN [acts |-> [d \in Dirs |->
                  IF d \in gone THEN NoAct
                  ELSE IF d \in dirs /\ A[d] # NoAct
                    THEN [A[d] EXCEPT !.sessions = @ \ {pid}]
                  ELSE A[d]],
      p2d |-> P2DDel(P, pid),
      deactivated |-> gone]

\* Manager.RemoveSession(pid)
RemoveSession(pid) ==
  IF pid \notin DOMAIN pidToDirs
    THEN /\ UNCHANGED <<global, activations, effective, pidToDirs>>
         /\ last' = [had |-> {}, op |-> "RemoveSession", err |-> "unknown", auto |-> "none"]
    ELSE LET r == RemoveSessionMaps(activations, pidToDirs, pid)
         IN /\ activations' = r.acts
            /\ pidToDirs' = r.p2d
            /\ effective' = IF r.deactivated # {}
                              THEN RecomputeOrNil(r.acts, global)
                              ELSE effective
            /\ UNCHANGED global
            /\ last' = [had |-> {}, op |-> "RemoveSession", auto |-> "none",
                        err |-> IF r.deactivated # {} THEN "nil" ELSE "kept"]

\* The orders in which a range over a map with the keys S may visit them.
Orders(S) ==
  {o \in [1..Cardinality(S) -> S] : \A i, j \in 1..Cardinality(S) : i # j => o[i] # o[j]}

\* Reaper.sweep.  No sweep runs: NoSweep.  While one runs, todo is what is
\* left of pids, the snapshot TrackedPIDs returned, and the record keeps
\* what the sweep has seen: whether every probe so far found its pid dead,
\* whether a RemoveSession of the sweep deactivated a directory, whether
\* no other call has changed the manager since the snapshot, and the
\* activations as the snapshot found them.
NoSweep == [on |-> FALSE, todo |-> <<>>, alldead |-> TRUE, dropped |-> FALSE,
            alone |-> TRUE, start |-> [d \in Dirs |-> NoAct]]
SwIdle == sweep = NoSweep

\* pids := r.mgr.TrackedPIDs(): the keys of pidToDirs, copied under the
\* read lock, in the order the range over the map yields them.
SweepBegin ==
  /\ ~sweep.on
  /\ \E order \in Orders(DOMAIN pidToDirs) :
       sweep' = [on |-> TRUE, todo |-> order, alldead |-> TRUE, dropped |-> FALSE,
                 alone |-> TRUE, start |-> activations]
  /\ last' = [had |-> {}, op |-> "SweepBegin", err |-> "nil", auto |-> "none"]
  /\ UNCHANGED <<global, activations, effective, pidToDirs>>

\* for _, pid := range pids: what is left to visit after the pid at hand.
SweepRestNone(pids) == <<>>
SweepRest(pids) == Tail(pids)

\* The body of the loop for the next pid of the snapshot: the probe
\* isAlive(pid), and RemoveSession(pid) when it answers false.
SweepStep ==
  /\ sweep.on /\ sweep.todo # <<>>
  /\ LET pid == Head(sweep.todo) IN
     \E alive \in BOOLEAN :
       IF alive
         THEN /\ sweep' = [sweep EXCEPT !.todo = SweepRest(sweep.todo), !.alldead = FALSE]
              /\ last' = [had |-> {}, op |-> "Probe", err |-> "alive", auto |-> "none"]
              /\ UNCHANGED <<global, activations, effective, pidToDirs>>
         ELSE /\ RemoveSession(pid)
              /\ sweep' = [sweep EXCEPT !.todo = SweepRest(sweep.todo),
                                        !.dropped = @ \/ last'.err = "nil"]

\* The range is over: sweep returns.
SweepEnd ==
  /\ sweep.on /\ sweep.todo = <<>>
  /\ sweep' = NoSweep
  /\ last' = [had |-> {}, op |-> "Sweep",
              err |-> IF ~sweep.alldead THEN "somealive"
                      ELSE IF sweep.alone THEN "alldead" ELSE "raced",
              auto |-> IF sweep.dropped THEN "dropped" ELSE "none"]
  /\ UNCHANGED <<global, activations, effective, pidToDirs>>

\* Another goroutine's call of Activate, Deactivate or RemoveSession goes
\* between two steps of the sweep, which takes and releases the manager's
\* locks call by call.
SweepRaced ==
  sweep' = IF sweep.on
             THEN [sweep EXCEPT !.alone = FALSE, !.start = NoSweep.start]
             ELSE sweep

\* The global config of the model: netrc is a global file, npmrc is not.
GlobalFiles == {"netrc"}

CtxInit ==
  /\ global = GlobalFiles
  /\ activations = [d \in Dirs |-> NoAct]
  /\ effective = Recompute(activations, global)
  /\ pidToDirs = [p \in {} |-> {}]
  /\ last = [had |-> {}, op |-> "New", err |-> "nil", auto |-> "none"]

\* Manager.TrackedPIDs: the keys of pidToDirs.
TrackedPIDs == DOMAIN pidToDirs

DoActivate ==
  \E dir \in Dirs, env \in Envs, pid \in 0..MaxPid, files \in SUBSET Names :
    Activate(dir, env, pid, files)

DoDeactivate == \E dir \in Dirs, pid \in 0..MaxPid : Deactivate(dir, pid)

DoRemoveSession == \E pid \in Pids : RemoveSession(pid)

RcIdle == joined = {} /\ left = {}

\* ------------------------------------------------------ locks and readers
NumReaders == 1
Readers == 1..NumReaders
NoCall == [op |-> "none"]
\* The reading calls: Effective, Activations and Sessions.
ReadKinds == {"Effective", "Activations", "Sessions"}
NotRead == [kind |-> "none"]

\* What a reading call copies out under the read lock.
Project(kind, A, E) ==
  IF kind = "Effective" THEN [kind |-> kind, val |-> E]
  ELSE IF kind = "Activations"
    THEN [kind |-> kind,
          val |-> [d \in ActiveDirs(A) |-> [env |-> A[d].env, overrides |-> A[d].overrides]]]
  ELSE [kind |-> kind,
        val |-> [d \in {x \in ActiveDirs(A) : A[x].sessions # {}} |-> A[d].sessions]]

LockIdle ==
  /\ activateMu = FALSE
  /\ muW = FALSE
  /\ muR = {}
  /\ wpc = "idle"
  /\ call = NoCall
  /\ committed = <<activations, effective>>
  /\ rpc = [r \in Readers |-> "idle"]
  /\ seen = [r \in Readers |-> NotRead]

\* ------------------------------------------------ the cache and the resolver
MaxCiphers == 2
MaxWorld == 1
NumResolvers == 2
Resolvers == 1..NumResolvers
\* Entry.TTL, in clock ticks.
TTL == 1
\* A ciphertext carries the identity of the cipher that made it; Zeroed is a
\* buffer after clear(), which no cipher decrypts.
Zeroed == [key |-> 0, pt |-> 0]
NoEntry == [none |-> TRUE]
NoRes == [ok |-> FALSE, val |-> -1, err |-> "", src |-> ""]
OkRes(v, src) == [ok |-> TRUE, val |-> v, err |-> "", src |-> src]
ErrRes(e, src) == [ok |-> FALSE, val |-> -1, err |-> e, src |-> src]

\* ageCipher.Encrypt and ageCipher.Decrypt: only the identity that encrypted
\* decrypts.
CipherEncrypt(c, pt) == [key |-> c, pt |-> pt]
CipherDecrypt(c, ct) ==
  IF ct.key = c THEN OkRes(ct.pt, "cache") ELSE ErrRes("decrypt", "cache")

\* time.Duration is a signed 64-bit count; the model keeps the arithmetic of
\* a signed integer of DurBits bits, whose products wrap around as Go's do.
DurBits == 5
MaxDur == 2 ^ (DurBits - 1) - 1
Wrap(x) == ((x + 2 ^ (DurBits - 1)) % (2 ^ DurBits)) - 2 ^ (DurBits - 1)
\* 2*e.TTL
Twice(ttl) == Wrap(2 * ttl)
\* Entry.Fresh, Entry.Stale and Entry.Expired for an entry of the given age.
EntryFresh(age, ttl) == age < ttl
EntryStale(age, ttl) == age >= ttl /\ age < Twice(ttl)
EntryExpired(age, ttl) == age >= Twice(ttl)
Fresh(e) == EntryFresh(e.age, TTL)
StaleOrExpired(e) == e.age >= TTL
Stale(e) == EntryStale(e.age, TTL)
Expired(e) == EntryExpired(e.age, TTL)

\* SHA-256 is taken as free of collisions: the sum stands for the bytes
\* written to the hash.
Sum(h) == [sha256 |-> h]

\* CacheKey{}, the zero key, with the error nil.
NoKey == [Hash |-> Sum(<<>>), FilePath |-> "", err |-> "nil"]

\* SecretCache.entries is a map from the string of a cache key to its entry.
NoEntries == [k \in {} |-> NoEntry]

IdleRs ==
  [pc |-> "idle", name |-> "", env |-> NilEnv, key |-> NoKey, path |-> "",
   entry |-> Zeroed, live |-> FALSE, got |-> Zeroed, content |-> -1, ct |-> Zeroed,
   encFailed |-> FALSE, res |-> NoRes]
NoRef == [pc |-> "none", key |-> NoKey, content |-> -1, ct |-> Zeroed]

ResIdle ==
  /\ cipher = 1
  /\ swapPc = "idle"
  /\ entries = NoEntries
  /\ world = 0
  /\ rs = [r \in Resolvers |-> IdleRs]
  /\ refreshing = {}
  /\ refreshers = [n \in Names |-> NoRef]
  /\ inflight = [n \in Names |-> 0]

\* ------------------------------------------------------- the mount backends
Backends == {"tmpfs", "fifo", "fuse"}
ChanCap == 1
NoFile == [none |-> TRUE]
NoHandle == [name |-> ""]
NoServe == [name |-> ""]
\* No serve goroutine has its FIFO open.
NoFd == [name |-> "", pc |-> "closed", content |-> NoFile]
RdIdle == fd = NoFd
\* Backend.Unmount has not been called.
UmIdle == upc = "idle" /\ uScrub = {} /\ uAt = ""

\* What the resolver returns for name: the content is named by what it is
\* rendered from, the FileConfig and the env of the EffectiveFile, as
\* ComputeCacheKey fingerprints them (a nil env and an empty env are one).
Want(E, name) ==
  IF name \in DOMAIN E
    THEN [src |-> E[name].src,
          env |-> IF E[name].env = NilEnv THEN [k \in {} |-> ""] ELSE E[name].env]
    ELSE NoFile

BeIdle ==
  /\ backend = "none"
  /\ reconfigCh = 0
  /\ signal = "none"
  /\ disk = [n \in Names |-> NoFile]
  /\ rendered = {}
  /\ todo = {}
  /\ fifos = {}
  /\ handle = NoHandle
  /\ served = NoServe

\* No entry is under test.
NoProbe == [ttl |-> 0, age |-> 0, asked |-> FALSE,
            fresh |-> FALSE, stale |-> FALSE, expired |-> FALSE]
EntIdle == probe = NoProbe

\* ----------------------------------------------------- the reload dispatcher
MaxPrologue == 2
MaxRules == 3
\* A rule: its kind, what its Match answers for the diff of the Dispatch
\* ("nil" when the rule has no Match), and whether it has a Handle.
Kinds == {"Warn", "Callback", "Kill"}
Rules ==
  {r \in [kind : Kinds, match : {"nil", "true", "false"}, handle : BOOLEAN] :
     r.handle => r.kind = "Callback"}
NoDispatch == [pc |-> "idle", i |-> 0, trace |-> <<>>, kills |-> 0]
\* reload.New(kill)
DspNew(kill) ==
  /\ dispatcher = [prologue |-> 0, rules |-> <<>>, kill |-> kill]
  /\ dispatch = NoDispatch
DspIdle == DspNew(TRUE)

\* ------------------------------------------------------ the control socket
NumConns == 2
Conns == 1..NumConns
\* The directory the requests name.
CtlDir == 1
\* What the OS reports for the peer of a connection: the daemon's UID,
\* another UID, or no credentials at all.
Peers == {"same", "other", "nocred"}
\* The request types the server dispatches on, and one it does not know.
ReqTypes == {"activate", "deactivate", "status", "cache_clear", "bogus"}
NoConn == [pc |-> "none", peer |-> "", req |-> "", trace |-> <<>>]
CtlIdle == conns = [c \in Conns |-> NoConn]

\* ------------------------------------------------- the connection handlers
\* make(chan struct{}, 16)
SemCap == 16
\* Where a handler goroutine can be: before verifyPeer, before the scan of
\* the request, before the dispatch on its type, and returned from
\* handleConn with the deferred release of the semaphore still to run.
Phases == {"verify", "read", "dispatch", "release"}
NoAccept == [how |-> "none", peer |-> "", trace |-> <<>>]
SrvIdle ==
  /\ sem = 0
  /\ handlers = [p \in Phases |-> 0]
  /\ accepted = NoAccept

\* ------------------------------------------------------------ Server.Listen
NumDaemons == 2
Daemons == 1..NumDaemons
NoSock == 0
LsnIdle ==
  /\ sockFile = NoSock
  /\ listening = {}
  /\ lpc = [d \in Daemons |-> "idle"]
  /\ stolen = {}

\* ------------------------------------------------------- the config watcher
NumCfgs == 2
NumReloaders == 2
\* The valid configs, by content: two of them differ iff their numbers do.
Cfgs == 1..NumCfgs
Reloaders == 1..NumReloaders
\* What can be at the config path: a valid config, nothing readable, text
\* that is not TOML, or TOML that fails Validate.
DiskStates ==
  {[kind |-> "ok", id |-> c] : c \in Cfgs}
    \cup {[kind |-> k, id |-> 0] : k \in {"missing", "badtoml", "invalid"}}
NoReload == [pc |-> "idle", new |-> 0, old |-> 0]
NoReloadCall == [how |-> "none", old |-> 0, new |-> 0, afterFail |-> FALSE]
CfgIdle ==
  /\ cfgDisk = [kind |-> "ok", id |-> 1]
  /\ cfgCurrent = 1
  /\ reloads = [r \in Reloaders |-> NoReload]
  /\ cfgCall = NoReloadCall
  /\ cfgFailed = FALSE

\* ------------------------------------------------------------ Backend.Mount
\* A scrubbed file before its removal: its size in zeros.
ZeroFile == [zeros |-> TRUE]
MntIdle ==
  /\ mpc = "idle"
  /\ ctxDone = FALSE
  /\ mret = "none"
  /\ mounted = FALSE
  /\ toScrub = {}
  /\ departed = {}
  /\ scrubErrs = {}
  /\ rawRemoved = {}
  /\ cancels = {}
  /\ tasks = [n \in Names |-> 0]
  /\ lingering = {}
  /\ pipes = {}
  /\ fifoErrs = {}
  /\ scrubAt = ""

\* ------------------------------------------------------- symlink manager data
\* Link paths a file configuration may name; NoLink is the empty Symlink
\* field (or a file absent from the configuration: both loops skip it).
NumLinks == 2
LinkPaths == 1..NumLinks
NoLink == 0

\* link + backupExt: one backup path per link path, none of them a link path.
BackupPath(link) == link + NumLinks

Paths == LinkPaths \cup {BackupPath(l) : l \in LinkPaths}

\* What Lstat and Readlink tell of a path.  dest is the file name under the
\* mount point a symlink points to, or Elsewhere.
Elsewhere == "elsewhere"
NoEnt == [kind |-> "none", dest |-> "", data |-> 0]
DirEnt == [kind |-> "dir", dest |-> "", data |-> 0]
File(c) == [kind |-> "file", dest |-> "", data |-> c]
Link(d) == [kind |-> "symlink", dest |-> d, data |-> 0]

ConflictModes == {"error", "backup"}

\* The files of a configuration: file name -> link path or NoLink.
FileSets == [Names -> LinkPaths \cup {NoLink}]

NoCallYet == [op |-> "none", err |-> "nil", files |-> [n \in Names |-> NoLink],
              conflict |-> "error"]

\* The home directories a daemon may start in: at the link paths nothing, a
\* directory, a foreign symlink, a symlink left by an earlier run or a file,
\* and at the backup paths nothing or an older backup.
Homes ==
  {f \in [Paths -> {NoEnt, DirEnt, Link(Elsewhere), Link("netrc"),
                    File(1), File(2)}] :
     /\ \A l \in LinkPaths : f[l] # File(2)
     /\ \A l \in LinkPaths : f[BackupPath(l)] \in {NoEnt, File(2)}}

\* NewManager.
NewManager ==
  /\ managed = [n \in Names |-> NoLink]
  /\ slret = NoCallYet

SlkIdle ==
  /\ fsys = [p \in Paths |-> NoEnt]
  /\ NewManager

\* ------------------------------------------------------------- cache key data
\* Strings are sequences of bytes: NUL is "\x00", EQ is "=", and Word stands
\* for the ten bytes of "slinky:env", written by its first byte and used
\* wherever those bytes appear together.
NUL == 0
EQ == 61
Word == 115
StrK == <<75>>
StrL == <<76>>
StrV == <<86>>
StrX == <<88>>
StrA == <<97>>
StrB == <<98>>

\* The arguments of a command: any list of at most MaxArgs strings out of
\* the empty string, "slinky:env" and "K=V".
MaxArgs == 5
ArgStrs == {<<>>, <<Word>>, <<75, EQ, 86>>}
ArgLists == UNION {[1..k -> ArgStrs] : k \in 0..MaxArgs}

\* The environments of an activation: maps from some of the keys K and L to
\* their values.
KeyEnvs ==
  {e \in UNION {[ks -> {StrV, StrX}] : ks \in SUBSET {StrK, StrL}} :
     StrL \in DOMAIN e => e[StrL] = StrV}

\* A file in template mode with the content of its template, or with a
\* template that cannot be read, or in command mode with its command and
\* arguments.
FileCfgs ==
  {[name |-> "netrc", mode |-> "template", readable |-> TRUE, content |-> c,
    command |-> <<>>, args |-> <<>>] : c \in {StrA, StrB}}
  \cup {[name |-> "netrc", mode |-> "template", readable |-> FALSE, content |-> <<>>,
          command |-> <<>>, args |-> <<>>]}
  \cup {[name |-> "netrc", mode |-> "command", readable |-> TRUE, content |-> <<>>,
          command |-> StrA, args |-> a] : a \in ArgLists}

\* What ComputeCacheKey is given, with the order in which the range over
\* the env map yields the keys.
CacheInputs ==
  UNION {{[cfg |-> c, env |-> e, order |-> o] : c \in FileCfgs, o \in Orders(DOMAIN e)} :
           e \in KeyEnvs}

FpIdle ==
  /\ fpIn = [cfg |-> [name |-> "netrc", mode |-> "command", readable |-> TRUE,
                      content |-> <<>>, command |-> StrA, args |-> <<>>],
             env |-> <<>>, order |-> <<>>]
  /\ fpKey = NoKey
  /\ fpDone = FALSE

\* ------------------------------------------------------------ lock order data
\* The goroutines that call into the context manager, the resolver and the
\* cache at the same time.
NumThreads == 3
Threads == 1..NumThreads

LkIdle == lkpos = [t \in Threads |-> [path |-> "idle", done |-> 0]]

\* ----------------------------------------------------------- convergence data
\* No mutating call is between its commit and its callback.
CvIdle == cbDue = "none" /\ atSignal = effective

\* ------------------------------------------------------- callback order data
\* The goroutines that call Activate, Deactivate and RemoveSession (control
\* socket connections and the reaper), and the commits a run may make.
NumMutators == 2
Mutators == 1..NumMutators
MaxCommits == 3
NoArg == [ver |-> 0]

CbIdle ==
  /\ cbpc = [t \in Mutators |-> "idle"]
  /\ marg = [t \in Mutators |-> NoArg]
  /\ commits = 0
  /\ applied = NoArg
  /\ running = {}

\* -------------------------------------------------------- reload order data
\* The prologue hooks of the dispatcher, in the order of registration, and
\* the commits a run may make.
Hooks == <<"resolver", "backend", "currentCfg">>
MaxReloads == 3

RoIdle ==
  /\ held = [h \in {"resolver", "backend", "currentCfg"} |-> 1]
  /\ hookpos = [r \in Reloaders |-> 0]
  /\ cfgSeq = 0
  /\ mine = [r \in Reloaders |-> 0]
  /\ dispatched = <<>>

\* ------------------------------------------------------------- daemon data
\* The mount points a config may name.
NumMounts == 2
MountPoints == 1..NumMounts
\* fc.Symlink of the file configurations, in the global config and in the
\* project configs alike: each file name has its own link path.
SymlinkOf(name) == IF name = "netrc" THEN 1 ELSE 2
\* The files map handed to the symlink manager for a set of file names.
LinksOf(names) == [n \in Names |-> IF n \in names THEN SymlinkOf(n) ELSE NoLink]
\* The file sets a global config of the model may define, and the configs
\* a reload may load: a mount point and the files.
DmFileSets == {GlobalFiles, Names}
DmCfgs == [mp : MountPoints, files : DmFileSets]
DmCfg0 == [mp |-> 1, files |-> GlobalFiles]
\* The files the project config of the daemon's project directory defines.
DmProjectFiles == {"npmrc"}
\* The reloads of a run of the daemon.
MaxDmReloads == 2
\* No onChange callback is under way.
NoCb == [pc |-> "none", eff |-> NilEffective, mp |-> 1, by |-> 0, old |-> FALSE]
\* A goroutine of the config watcher that is not in reload().
DmNoReload == [pc |-> "idle", new |-> DmCfg0, files |-> FALSE, mount |-> FALSE,
             mp |-> 1, eff |-> {}, old |-> FALSE]

\* Before runForeground: no link, no signal, no callback.
DmIdle ==
  /\ currentCfg = DmCfg0
  /\ cwCurrent = DmCfg0
  /\ cwSeq = 0
  /\ loop = "idle"
  /\ loopCfg = DmCfg0
  /\ restartCh = 0
  /\ sigpc = "none"
  /\ cbArg = NoCb
  /\ reloading = [r \in Reloaders |-> DmNoReload]

MoreIdle == SrvIdle /\ LsnIdle /\ CfgIdle /\ MntIdle /\ SlkIdle /\ FpIdle /\ LkIdle /\ CvIdle /\ CbIdle /\ RoIdle /\ DmIdle /\ TplIdle /\ SwIdle /\ RdIdle /\ UmIdle

Init ==
  CtxInit /\ RcIdle /\ LockIdle /\ ResIdle /\ BeIdle /\ EntIdle /\ DspIdle /\ CtlIdle /\ MoreIdle

\* The manager is made over a configuration whose template file is in any
\* of its states; the calls follow.
InitTemplates ==
  /\ tplFile \in TplFiles
  /\ tplCache = NoTplCache
  /\ CtxInit /\ RcIdle /\ LockIdle /\ ResIdle /\ BeIdle /\ EntIdle /\ DspIdle /\ CtlIdle
  /\ SrvIdle /\ LsnIdle /\ CfgIdle /\ MntIdle /\ SlkIdle /\ FpIdle /\ LkIdle /\ CvIdle /\ CbIdle /\ RoIdle /\ DmIdle /\ SwIdle /\ RdIdle /\ UmIdle
Next ==
  \/ DoActivate /\ UNCHANGED outsideCtx
  \/ DoDeactivate /\ UNCHANGED outsideCtx
  \/ DoRemoveSession /\ UNCHANGED outsideCtx
Spec == InitTemplates /\ [][Next]_vars

\* The reaper sweeps while other goroutines call into the manager.
outsideSweep == <<rcVars, lockVars, resVars, beVars, entVars, dspVars, ctlVars, restSw>>
\* The activations that go between: of either directory, by any session or
\* by none, with or without an override.
SweepActivate ==
  \E dir \in Dirs, pid \in 0..MaxPid, files \in {{}, {"npmrc"}} :
    Activate(dir, NilEnv, pid, files)
SweepNext ==
  \/ SweepActivate /\ SweepRaced /\ UNCHANGED outsideSweep
  \/ DoDeactivate /\ SweepRaced /\ UNCHANGED outsideSweep
  \/ DoRemoveSession /\ SweepRaced /\ UNCHANGED outsideSweep
  \/ SweepBegin /\ UNCHANGED outsideSweep
  \/ SweepStep /\ UNCHANGED outsideSweep
  \/ SweepEnd /\ UNCHANGED outsideSweep
SpecSweep == Init /\ [][SweepNext]_vars

\* ------------------------------------------- the calls, lock step by lock step
\* sync.RWMutex: RLock succeeds while no writer holds the lock, Lock while
\* nobody holds it.
CanRLockAlways(w) == TRUE
CanRLock(w) == ~w
CanLock(w, readers) == ~w /\ readers = {}

\* A writer enters Activate, Deactivate or RemoveSession: activateMu.Lock().
\* For Activate the discovery of the project configs happens here, before
\* mu is taken.
WBegin ==
  /\ wpc = "idle"
  /\ ~activateMu
  /\ activateMu' = TRUE
  /\ wpc' = "entered"
  /\ \E op \in {"Activate", "Deactivate", "RemoveSession"}, dir \in Dirs,
        env \in Envs, pid \in 0..MaxPid, files \in SUBSET Names :
       /\ op = "Deactivate" => env = NilEnv /\ files = {}
       /\ op = "RemoveSession" => env = NilEnv /\ files = {} /\ dir = 1 /\ pid > 0
       /\ call' = [op |-> op, dir |-> dir, env |-> env, pid |-> pid, files |-> files,
                   old |-> activations, removed |-> {}, err |-> "nil",
                   arg |-> NilEffective]
  /\ UNCHANGED <<ctxVars, outsideConc, muW, muR, committed, rpc, seen>>

\* m.mu.Lock()
WLock ==
  /\ wpc = "entered"
  /\ CanLock(muW, muR)
  /\ muW' = TRUE
  /\ wpc' = "locked"
  /\ call' = [call EXCEPT !.old = activations]
  /\ UNCHANGED <<ctxVars, outsideConc, activateMu, muR, committed, rpc, seen>>

\* Activate, lines 173-189.
WInstall ==
  /\ wpc = "locked" /\ call.op = "Activate"
  /\ LET i == Install(activations, pidToDirs, call.dir, call.env, call.pid, call.files)
     IN activations' = i.acts /\ pidToDirs' = i.p2d
  /\ wpc' = "installed"
  /\ UNCHANGED <<global, effective, last, outsideConc, activateMu, muW, muR, call,
                 committed, rpc, seen>>

\* Activate, lines 191-213.
WAutoDeactivate ==
  /\ wpc = "installed"
  /\ LET a == AutoDeactivate(activations, pidToDirs, call.dir, call.pid)
     IN /\ activations' = a.acts
        /\ pidToDirs' = a.p2d
        /\ call' = [call EXCEPT !.removed = a.removed]
  /\ wpc' = "tentative"
  /\ UNCHANGED <<global, effective, last, outsideConc, activateMu, muW, muR,
                 committed, rpc, seen>>

\* Deactivate, lines 257-285.
WDeactivate ==
  /\ wpc = "locked" /\ call.op = "Deactivate"
  /\ IF activations[call.dir] = NoAct
       THEN /\ call' = [call EXCEPT !.err = "unknown"]
            /\ wpc' = "computed"
            /\ UNCHANGED <<activations, pidToDirs>>
       ELSE LET r == DeactivateMaps(activations, pidToDirs, call.dir, call.pid)
            IN /\ activations' = r.acts
               /\ pidToDirs' = r.p2d
               /\ call' = [call EXCEPT !.err = IF r.keep THEN "kept" ELSE "nil"]
               /\ wpc' = IF r.keep THEN "computed" ELSE "tentative"
  /\ UNCHANGED <<global, effective, last, outsideConc, activateMu, muW, muR,
                 committed, rpc, seen>>

\* RemoveSession, lines 306-324.
WRemoveSession ==
  /\ wpc = "locked" /\ call.op = "RemoveSession"
  /\ IF call.pid \notin DOMAIN pidToDirs
       THEN /\ call' = [call EXCEPT !.err = "unknown"]
            /\ wpc' = "computed"
            /\ UNCHANGED <<activations, pidToDirs>>
       ELSE LET r == RemoveSessionMaps(activations, pidToDirs, call.pid)
            IN /\ activations' = r.acts
               /\ pidToDirs' = r.p2d
               /\ call' = [call EXCEPT !.err = IF r.deactivated # {} THEN "nil" ELSE "kept"]
               /\ wpc' = IF r.deactivated # {} THEN "tentative" ELSE "computed"
  /\ UNCHANGED <<global, effective, last, outsideConc, activateMu, muW, muR,
                 committed, rpc, seen>>

\* recompute and what follows it while mu is held: Activate lines 215-240
\* (rollback on a conflict), Deactivate 287-288, RemoveSession 327-328.
WRecompute ==
  /\ wpc = "tentative"
  /\ IF call.op = "Activate" /\ Conflict(activations)
       THEN LET r == Rollback(call.old, activations, pidToDirs, call.removed,
                              call.dir, call.pid)
            IN /\ activations' = r.acts
               /\ pidToDirs' = r.p2d
               /\ call' = [call EXCEPT !.err = "conflict"]
               /\ UNCHANGED effective
       ELSE /\ effective' = RecomputeOrNil(activations, global)
            /\ call' = [call EXCEPT !.arg = RecomputeOrNil(activations, global)]
            /\ UNCHANGED <<activations, pidToDirs>>
  /\ wpc' = "computed"
  /\ UNCHANGED <<global, last, outsideConc, activateMu, muW, muR, committed, rpc, seen>>

\* m.mu.Unlock()
WUnlock ==
  /\ wpc = "computed"
  /\ muW' = FALSE
  /\ committed' = <<activations, effective>>
  /\ wpc' = "unlocked"
  /\ UNCHANGED <<ctxVars, outsideConc, activateMu, muR, call, rpc, seen>>

\* m.onChange(effective), on the paths that do not return early: the
\* callback runs with the map recompute returned to this call.
Invokes(c) == c.err = "nil"
WCallback ==
  /\ wpc = "unlocked"
  /\ Invokes(call)
  /\ wpc' = "callback"
  /\ UNCHANGED <<ctxVars, outsideConc, activateMu, muW, muR, call, committed, rpc, seen>>

\* The call returns: the deferred activateMu.Unlock().
WReturn ==
  /\ \/ wpc = "callback"
     \/ wpc = "unlocked" /\ ~Invokes(call)
  /\ activateMu' = FALSE
  /\ wpc' = "idle"
  /\ call' = NoCall
  /\ UNCHANGED <<ctxVars, outsideConc, muW, muR, committed, rpc, seen>>

\* A reader enters Effective, Activations or Sessions: m.mu.RLock().
RRLock(r) ==
  /\ rpc[r] = "idle"
  /\ CanRLock(muW)
  /\ muR' = muR \cup {r}
  /\ rpc' = [rpc EXCEPT ![r] = "rlocked"]
  /\ UNCHANGED <<ctxVars, outsideConc, activateMu, muW, wpc, call, committed, seen>>

\* The reader copies the map out.
RRead(r) ==
  /\ rpc[r] = "rlocked"
  /\ \E kind \in ReadKinds :
       seen' = [seen EXCEPT ![r] = Project(kind, activations, effective)]
  /\ rpc' = [rpc EXCEPT ![r] = "read"]
  /\ UNCHANGED <<ctxVars, outsideConc, activateMu, muW, muR, wpc, call, committed>>

\* The deferred m.mu.RUnlock(); the reader returns.
RRUnlock(r) ==
  /\ rpc[r] = "read"
  /\ muR' = muR \ {r}
  /\ rpc' = [rpc EXCEPT ![r] = "idle"]
  /\ seen' = [seen EXCEPT ![r] = NotRead]
  /\ UNCHANGED <<ctxVars, outsideConc, activateMu, muW, wpc, call, committed>>

ConcNext ==
  \/ WBegin
  \/ WLock
  \/ WInstall
  \/ WAutoDeactivate
  \/ WDeactivate
  \/ WRemoveSession
  \/ WRecompute
  \/ WUnlock
  \/ WCallback
  \/ WReturn
  \/ \E r \in Readers : RRLock(r)
  \/ \E r \in Readers : RRead(r)
  \/ \E r \in Readers : RRUnlock(r)
SpecConc == Init /\ [][ConcNext]_vars

\* ------------------------------------------------------------------ cache key
\* strings.Join(parts, sep).
RECURSIVE Join(_, _)
Join(parts, sep) ==
  IF parts = <<>> THEN <<>>
  ELSE IF Len(parts) = 1 THEN parts[1]
  ELSE parts[1] \o sep \o Join(Tail(parts), sep)

\* The order of strings: byte by byte, a proper prefix first.
RECURSIVE StrLess(_, _)
StrLess(s, t) ==
  IF t = <<>> THEN FALSE
  ELSE IF s = <<>> THEN TRUE
  ELSE IF s[1] # t[1] THEN s[1] < t[1]
  ELSE StrLess(Tail(s), Tail(t))

\* slices.Sort(keys).
RECURSIVE Insert(_, _)
Insert(k, sorted) ==
  IF sorted = <<>> THEN <<k>>
  ELSE IF StrLess(k, sorted[1]) THEN <<k>> \o sorted
  ELSE <<sorted[1]>> \o Insert(k, Tail(sorted))
RECURSIVE Sort(_)
Sort(keys) ==
  IF keys = <<>> THEN <<>> ELSE Insert(keys[1], Sort(Tail(keys)))

\* The domain separator "\x00\x00slinky:env\x00\x00".
EnvSeparator == <<NUL, NUL, Word, NUL, NUL>>

\* The writes of the env loop: k + "=" + env[k] + "\x00" for each key.
RECURSIVE WritePairs(_, _)
WritePairs(keys, env) ==
  IF keys = <<>> THEN <<>>
  ELSE keys[1] \o <<EQ>> \o env[keys[1]] \o <<NUL>> \o WritePairs(Tail(keys), env)

\* ComputeCacheKey(cfg, env).  When the template cannot be read it returns
\* the zero key and the error.
ComputeCacheKey(in) ==
  IF in.cfg.mode = "template" /\ ~in.cfg.readable
    THEN [NoKey EXCEPT !.err = "reading template for cache key"]
  ELSE
  LET body == IF in.cfg.mode = "template" THEN in.cfg.content
              ELSE Join(<<in.cfg.command>> \o in.cfg.args, <<NUL>>)
      h == IF DOMAIN in.env # {}
             THEN body \o EnvSeparator \o WritePairs(Sort(in.order), in.env)
             ELSE body
  IN [Hash |-> Sum(h), FilePath |-> in.cfg.name, err |-> "nil"]

\* ------------------------------------------------- Resolve, step by step
\* lookupFile: the effective set first, then the global config.
LookupFile(name) == name \in DOMAIN effective \/ name \in global

\* The bytes of a string of the context manager as the hash sees them.
Bytes(str) ==
  CASE str = "TOKEN" -> StrK
    [] str = "HOME" -> StrL
    [] str = "t1" -> StrV
    [] OTHER -> StrX

\* The bytes os.ReadFile returns for the template on disk.
TplBytes(tpl) == <<96 + tpl.text>>

\* What Resolve hands to ComputeCacheKey for the file it looked up: the
\* FileConfig, whose template is read from the disk at the moment of the
\* call, and the env of the effective file.
KeyInput(name, env) ==
  LET cfg == FileCfg(name)
      e == IF env = NilEnv THEN <<>>
           ELSE [b \in {Bytes(k) : k \in DOMAIN env} |->
                   Bytes(env[CHOOSE k \in DOMAIN env : Bytes(k) = b])]
  IN [cfg |-> IF cfg.template # ""
                THEN [name |-> name, mode |-> "template", readable |-> tplFile.there,
                      content |-> IF tplFile.there THEN TplBytes(tplFile) ELSE <<>>,
                      command |-> <<>>, args |-> <<>>]
                ELSE [name |-> name, mode |-> "command", readable |-> TRUE,
                      content |-> <<>>, command |-> StrA, args |-> <<>>],
      env |-> e,
      order |-> CHOOSE o \in Orders(DOMAIN e) : TRUE]

\* NativeRenderer.loadTemplate for the file tpl at the template's path and
\* the renderer's cache entry for the path.  os.Stat comes first, so a file
\* that is not there is an error whatever is cached.  When the entry has
\* the modification time of the file the cached text is returned and the
\* file is not read; else the file is read and its text cached with the
\* modification time.
LoadTemplate(tpl, cache) ==
  IF ~tpl.there THEN [err |-> TRUE, text |-> 0, cache |-> cache]
  ELSE IF cache # NoTplCache /\ cache.mtime = tpl.mtime
    THEN [err |-> FALSE, text |-> cache.text, cache |-> cache]
  ELSE [err |-> FALSE, text |-> tpl.text,
        cache |-> [text |-> tpl.text, mtime |-> tpl.mtime]]

\* renderer.Render: a template that cannot be loaded, or whose loaded text
\* does not parse, fails the render; the content is made of the secret and
\* of the text loadTemplate returned.  A command-mode file has no template.
Renders(name) ==
  \/ FileCfg(name).template = ""
  \/ LET l == LoadTemplate(tplFile, tplCache) IN ~l.err /\ TemplateParses(l.text)
RenderOut(name) ==
  10 * world + (IF FileCfg(name).template # ""
                  THEN LoadTemplate(tplFile, tplCache).text ELSE 0)
\* The renderer's cache after Render of the file.
RenderCached(name) ==
  IF FileCfg(name).template # "" THEN LoadTemplate(tplFile, tplCache).cache ELSE tplCache
\* What a render leaves alone outside the resolver.
outsideRender == <<ctxVars, rcVars, lockVars, beVars, entVars, dspVars, ctlVars, restTpl, tplFile>>

\* sc.entries[key], NoEntry when the key is not in the map.
CacheGet(E, key) == IF key \in DOMAIN E THEN E[key] ELSE NoEntry
\* sc.entries[key] = entry
CachePut(E, key, entry) ==
  [k \in (DOMAIN E) \cup {key} |-> IF k = key THEN entry ELSE E[k]]
\* delete(sc.entries, key) for each of the keys
CacheDelete(E, keys) == [k \in (DOMAIN E) \ keys |-> E[k]]

\* clear(e.Ciphertext) on the entries of the given keys: whoever holds such
\* an entry holds the zeroed buffer.
ZeroHeld(R, keys) ==
  [r \in Resolvers |->
     IF R[r].live /\ R[r].key \in keys
       THEN [R[r] EXCEPT !.entry = Zeroed, !.live = FALSE]
       ELSE R[r]]

\* sc.entries[key] = &Entry{...}: the holders of the old entry keep it.
Detach(R, key) ==
  [r \in Resolvers |->
     IF R[r].live /\ R[r].key = key THEN [R[r] EXCEPT !.live = FALSE] ELSE R[r]]

\* asyncRefresh, lines 111-116: start a refresh unless one runs for name.
ShouldSpawnAlways(flags, name) == TRUE
ShouldSpawn(flags, name) == name \notin flags

\* renderAndCache, lines 102-107: what it returns when Put fails.
PutFailIsError(content) == ErrRes("encrypt", "render")
PutFailResult(content) == OkRes(content, "render")

\* Resolve, lines 39-42: lookupFile, which reads the effective set under the
\* read lock of the context manager and falls back to the global config.
RStart(r) ==
  /\ rs[r].pc = "idle"
  /\ CanRLock(muW)
  /\ \E name \in Names :
       rs' = [rs EXCEPT ![r] =
                IF LookupFile(name)
                  THEN [@ EXCEPT !.pc = "key", !.name = name,
                                 !.env = IF name \in DOMAIN effective
                                           THEN effective[name].env ELSE NilEnv]
                  ELSE [@ EXCEPT !.pc = "done", !.name = name, !.path = "unknown",
                                 !.res = ErrRes("unknown", "lookup")]]
  /\ UNCHANGED <<outsideRes, cipher, swapPc, entries, world, refreshing, refreshers, inflight>>

\* Resolve, lines 44-48: ComputeCacheKey; when it fails Resolve returns the
\* error before the cache is asked and before anything is rendered.
RKey(r) ==
  /\ rs[r].pc = "key"
  /\ LET key == ComputeCacheKey(KeyInput(rs[r].name, rs[r].env))
     IN rs' = [rs EXCEPT ![r] =
                 IF key.err # "nil"
                   THEN [@ EXCEPT !.pc = "done", !.path = "nokey",
                                  !.res = ErrRes("computing cache key", "key")]
                   ELSE [@ EXCEPT !.pc = "get", !.key = key]]
  /\ UNCHANGED <<outsideRes, cipher, swapPc, entries, world, refreshing, refreshers, inflight>>

\* Resolve, lines 49-64: cache.Get and the choice of the path.
RGet(r) ==
  /\ rs[r].pc = "get"
  /\ swapPc = "idle"
  /\ LET e == CacheGet(entries, rs[r].key)
     IN rs' = [rs EXCEPT ![r] =
          IF e # NoEntry /\ Fresh(e)
            THEN [@ EXCEPT !.pc = "decrypt", !.path = "fresh", !.entry = e.ct,
                           !.got = e.ct, !.live = TRUE]
          ELSE IF e # NoEntry /\ Stale(e)
            THEN [@ EXCEPT !.pc = "asyncRefresh", !.path = "stale", !.entry = e.ct,
                           !.got = e.ct, !.live = TRUE]
          ELSE [@ EXCEPT !.pc = "render", !.path = "miss"]]
  /\ UNCHANGED <<outsideRes, cipher, swapPc, entries, world, refreshing, refreshers, inflight>>

\* asyncRefresh: under r.mu, check and set the flag of the name, then start
\* the goroutine, which is given the key.
RAsyncRefresh(r) ==
  /\ rs[r].pc = "asyncRefresh"
  /\ rs' = [rs EXCEPT ![r].pc = "decrypt"]
  /\ IF ShouldSpawn(refreshing, rs[r].name)
       THEN /\ refreshing' = refreshing \cup {rs[r].name}
            /\ refreshers' = [refreshers EXCEPT ![rs[r].name] =
                                 [pc |-> "render", key |-> rs[r].key, content |-> -1,
                                  ct |-> Zeroed]]
            /\ inflight' = [inflight EXCEPT ![rs[r].name] = @ + 1]
       ELSE UNCHANGED <<refreshing, refreshers, inflight>>
  /\ UNCHANGED <<outsideRes, cipher, swapPc, entries, world>>

\* return r.cache.Decrypt(entry)
RDecrypt(r) ==
  /\ rs[r].pc = "decrypt"
  /\ rs' = [rs EXCEPT ![r] = [@ EXCEPT !.pc = "done", !.entry = Zeroed, !.live = FALSE,
                                       !.res = CipherDecrypt(cipher, rs[r].entry)]]
  /\ UNCHANGED <<outsideRes, cipher, swapPc, entries, world, refreshing, refreshers, inflight>>

\* renderAndCache, lines 95-99: the render, which may fail, and does when
\* the template cannot be loaded or parsed; the template it loaded stays in
\* the cache of the shared renderer.
RRender(r) ==
  /\ rs[r].pc = "render"
  /\ \E ok \in BOOLEAN :
       rs' = [rs EXCEPT ![r] =
                IF ok /\ Renders(rs[r].name)
                  THEN [@ EXCEPT !.pc = "encrypt", !.content = RenderOut(rs[r].name)]
                ELSE [@ EXCEPT !.pc = "done", !.res = ErrRes("render", "render")]]
  /\ tplCache' = RenderCached(rs[r].name)
  /\ UNCHANGED <<outsideRender, cipher, swapPc, entries, world, refreshing, refreshers, inflight>>

\* cache.Put, line 60: encrypt with sc.cipher, outside the lock; a failure
\* is logged by renderAndCache, which returns the content.
REncrypt(r) ==
  /\ rs[r].pc = "encrypt"
  /\ \E ok \in BOOLEAN :
       rs' = [rs EXCEPT ![r] =
                IF ok THEN [@ EXCEPT !.pc = "insert",
                                     !.ct = CipherEncrypt(cipher, rs[r].content)]
                ELSE [@ EXCEPT !.pc = "done", !.encFailed = TRUE,
                               !.res = PutFailResult(rs[r].content)]]
  /\ UNCHANGED <<outsideRes, cipher, swapPc, entries, world, refreshing, refreshers, inflight>>

\* cache.Put, lines 65-72: insert under the lock; renderAndCache returns.
RInsert(r) ==
  /\ rs[r].pc = "insert"
  /\ swapPc = "idle"
  /\ entries' = CachePut(entries, rs[r].key, [ct |-> rs[r].ct, age |-> 0])
  /\ rs' = [Detach(rs, rs[r].key) EXCEPT ![r] =
              [@ EXCEPT !.pc = "done", !.ct = Zeroed,
                        !.res = OkRes(rs[r].content, "render")]]
  /\ UNCHANGED <<outsideRes, cipher, swapPc, world, refreshing, refreshers, inflight>>

\* The consumer has its answer.
RReturn(r) ==
  /\ rs[r].pc = "done"
  /\ rs' = [rs EXCEPT ![r] = IdleRs]
  /\ UNCHANGED <<outsideRes, cipher, swapPc, entries, world, refreshing, refreshers, inflight>>

\* The refresh goroutine of name n runs renderAndCache: the render,
FRender(n) ==
  /\ refreshers[n].pc = "render"
  /\ \E ok \in BOOLEAN :
       refreshers' = [refreshers EXCEPT ![n] =
                        IF ok /\ Renders(n)
                          THEN [@ EXCEPT !.pc = "encrypt", !.content = RenderOut(n)]
                        ELSE [@ EXCEPT !.pc = "finish"]]
  /\ tplCache' = RenderCached(n)
  /\ UNCHANGED <<outsideRender, cipher, swapPc, entries, world, rs, refreshing, inflight>>

\* the encryption of cache.Put,
FEncrypt(n) ==
  /\ refreshers[n].pc = "encrypt"
  /\ \E ok \in BOOLEAN :
       refreshers' = [refreshers EXCEPT ![n] =
                        IF ok THEN [@ EXCEPT !.pc = "insert",
                                             !.ct = CipherEncrypt(cipher, refreshers[n].content)]
                        ELSE [@ EXCEPT !.pc = "finish"]]
  /\ UNCHANGED <<outsideRes, cipher, swapPc, entries, world, rs, refreshing, inflight>>

\* the insertion of cache.Put under the key the goroutine was given,
FInsert(n) ==
  /\ refreshers[n].pc = "insert"
  /\ swapPc = "idle"
  /\ entries' = CachePut(entries, refreshers[n].key, [ct |-> refreshers[n].ct, age |-> 0])
  /\ rs' = Detach(rs, refreshers[n].key)
  /\ refreshers' = [refreshers EXCEPT ![n] = [@ EXCEPT !.pc = "finish", !.ct = Zeroed]]
  /\ UNCHANGED <<outsideRes, cipher, swapPc, world, refreshing, inflight>>

\* The goroutine with a delete that is not deferred: it is skipped when
\* the render has failed.
FFinishOnSuccess(n) ==
  /\ refreshers[n].pc = "finish"
  /\ refreshing' = IF refreshers[n].content = -1 THEN refreshing ELSE refreshing \ {n}
  /\ refreshers' = [refreshers EXCEPT ![n] = NoRef]
  /\ inflight' = [inflight EXCEPT ![n] = @ - 1]
  /\ UNCHANGED <<outsideRes, cipher, swapPc, entries, world, rs>>

\* and the deferred delete(r.refreshing, name), lines 120-124.
FFinish(n) ==
  /\ refreshers[n].pc = "finish"
  /\ refreshing' = refreshing \ {n}
  /\ refreshers' = [refreshers EXCEPT ![n] = NoRef]
  /\ inflight' = [inflight EXCEPT ![n] = @ - 1]
  /\ UNCHANGED <<outsideRes, cipher, swapPc, entries, world, rs>>

\* SwapCipher, lines 91-96: under the lock, zero every entry and replace
\* the map.
SwapCleared(E) == NoEntries

SwapClear ==
  /\ swapPc = "idle"
  /\ cipher < MaxCiphers
  /\ entries' = SwapCleared(entries)
  /\ rs' = ZeroHeld(rs, (DOMAIN entries) \ DOMAIN entries')
  /\ swapPc' = "cleared"
  /\ UNCHANGED <<outsideRes, cipher, world, refreshing, refreshers, inflight>>

\* The identity of the cipher cipher.New returns when the cache holds cipher
\* c: an identity of its own (ephemeral, or a keyring or keyctl store that
\* had none), or, loaded from the store, the identity the keyring or the
\* keyctl store persists, which is the one of c when c came from the same
\* store.
NewCipher(c, persisted) == IF persisted THEN c ELSE c + 1

\* SwapCipher, line 97: install the new cipher; the deferred Unlock.
SwapInstall ==
  /\ swapPc = "cleared"
  /\ \E persisted \in BOOLEAN : cipher' = NewCipher(cipher, persisted)
  /\ swapPc' = "idle"
  /\ UNCHANGED <<outsideRes, entries, world, rs, refreshing, refreshers, inflight>>

\* Time passes: every entry is one tick older.
Tick ==
  /\ \E k \in DOMAIN entries : entries[k].age < 2 * TTL
  /\ entries' = [k \in DOMAIN entries |->
                   IF entries[k].age < 2 * TTL
                     THEN [entries[k] EXCEPT !.age = @ + 1]
                     ELSE entries[k]]
  /\ UNCHANGED <<outsideRes, cipher, swapPc, world, rs, refreshing, refreshers, inflight>>

\* reaper: zero and delete the expired entries.
Reap ==
  /\ swapPc = "idle"
  /\ LET dead == {k \in DOMAIN entries : Expired(entries[k])}
     IN /\ dead # {}
        /\ entries' = CacheDelete(entries, dead)
        /\ rs' = ZeroHeld(rs, dead)
  /\ UNCHANGED <<outsideRes, cipher, swapPc, world, refreshing, refreshers, inflight>>

\* SecretCache.ClearKey: under the lock, zero and delete the entry of one
\* key, whatever its age.
ClearKey ==
  /\ swapPc = "idle"
  /\ \E key \in DOMAIN entries :
       /\ entries' = CacheDelete(entries, {key})
       /\ rs' = ZeroHeld(rs, {key})
  /\ UNCHANGED <<outsideRes, cipher, swapPc, world, refreshing, refreshers, inflight>>

\* The secret that the templates and commands read changes.
WorldChange ==
  /\ world < MaxWorld
  /\ world' = world + 1
  /\ UNCHANGED <<outsideRes, cipher, swapPc, entries, rs, refreshing, refreshers, inflight>>

\* The template file the daemon started with is rewritten or removed, once.
\* The renderer's cache of it is left as it is: only a later load looks at
\* the file.
resRest == <<ctxVars, rcVars, lockVars, beVars, entVars, dspVars, ctlVars, restTpl>>
TemplateWrite(files) ==
  /\ tplFile = TplToken
  /\ tplFile' \in files
  /\ UNCHANGED <<resRest, resVars, tplCache>>

\* While Resolve is watched by several callers the template is removed;
\* while the refreshes are watched it is rewritten, with a new modification
\* time or with the one it had.
Removed == {TplMissing}
Rewritten == {TplBoth, TplTouched}
ResNext ==
  \/ \E r \in Resolvers : RStart(r)
  \/ \E r \in Resolvers : RKey(r)
  \/ \E r \in Resolvers : RGet(r)
  \/ \E r \in Resolvers : RAsyncRefresh(r)
  \/ \E r \in Resolvers : RDecrypt(r)
  \/ \E r \in Resolvers : RRender(r)
  \/ \E r \in Resolvers : REncrypt(r)
  \/ \E r \in Resolvers : RInsert(r)
  \/ \E r \in Resolvers : RReturn(r)
  \/ \E n \in Names : FRender(n)
  \/ \E n \in Names : FEncrypt(n)
  \/ \E n \in Names : FInsert(n)
  \/ \E n \in Names : FFinish(n)
  \/ SwapClear
  \/ SwapInstall
  \/ Tick
  \/ Reap
  \/ ClearKey
  \/ WorldChange
  \/ TemplateWrite(Removed)
SpecResolve == Init /\ [][ResNext]_vars

\* The refreshes alone, with one consumer reading: Resolve by one caller,
\* the refresh goroutines, SwapCipher, the clock, the reaper and the writer
\* of the template.
OneReader == {1}
RefreshNext ==
  \/ \E r \in OneReader : RStart(r)
  \/ \E r \in OneReader : RKey(r)
  \/ \E r \in OneReader : RGet(r)
  \/ \E r \in OneReader : RAsyncRefresh(r)
  \/ \E r \in OneReader : RDecrypt(r)
  \/ \E r \in OneReader : RRender(r)
  \/ \E r \in OneReader : REncrypt(r)
  \/ \E r \in OneReader : RInsert(r)
  \/ \E r \in OneReader : RReturn(r)
  \/ \E n \in Names : FRender(n)
  \/ \E n \in Names : FEncrypt(n)
  \/ \E n \in Names : FInsert(n)
  \/ \E n \in Names : FFinish(n)
  \/ SwapClear
  \/ SwapInstall
  \/ Tick
  \/ Reap
  \/ ClearKey
  \/ WorldChange
  \/ TemplateWrite(Rewritten)

\* The refresh goroutine is scheduled like any other, so each of its steps
\* is taken when it stays possible; sync.RWMutex does not starve a waiting
\* writer, so its insertion under the cache lock is taken although
\* SwapCipher holds the lock from time to time; SwapCipher, once it has the
\* lock, runs to its deferred Unlock.
ResFair ==
  /\ \A n \in Names : WF_vars(FRender(n)) /\ WF_vars(FEncrypt(n)) /\ WF_vars(FFinish(n))
  /\ \A n \in Names : SF_vars(FInsert(n))
  /\ WF_vars(SwapInstall)
SpecRefresh == Init /\ [][RefreshNext]_vars /\ ResFair

\* ---------------------------------------------- the backends and their readers
cvRest == <<rcVars, lockVars, resVars, entVars, dspVars, ctlVars, restCv>>
rdRest == <<rcVars, lockVars, resVars, entVars, dspVars, ctlVars, restRd>>

\* Backend.Reconfigure: tmpfs and fifo send on reconfigCh if the send can
\* proceed and fall to the default case of the select if not; for fuse it is
\* a no-op.  ChanCap is the capacity the channel is made with.
ReconfigureSend(ch) ==
  IF ch < ChanCap THEN [len |-> ch + 1, how |-> "sent"]
  ELSE [len |-> ch, how |-> "blocked"]
Reconfigure(ch) ==
  IF backend = "fuse" THEN [len |-> ch, how |-> "noop"]
  ELSE IF ch < ChanCap THEN [len |-> ch + 1, how |-> "sent"]
  ELSE [len |-> ch, how |-> "collapsed"]

\* Activate without session, up to m.mu.Unlock(): the effective set is
\* committed; the onChange callback is due when the call did not return
\* early.  activateMu keeps the next call out until the callback has
\* returned.
BeActivate(dirs) ==
  /\ cbDue = "none"
  /\ \E dir \in dirs, env \in Envs \ {NilEnv}, files \in SUBSET Names :
       Activate(dir, env, 0, files)
  /\ cbDue' = IF last'.err = "nil" THEN "links" ELSE "none"
  /\ signal' = "none"
  /\ served' = NoServe
  /\ UNCHANGED <<cvRest, atSignal, backend, reconfigCh, disk, rendered, todo, fifos, handle>>

\* Deactivate without session, up to m.mu.Unlock().
BeDeactivate(dirs) ==
  /\ cbDue = "none"
  /\ \E dir \in dirs : Deactivate(dir, 0)
  /\ cbDue' = IF last'.err = "nil" THEN "links" ELSE "none"
  /\ signal' = "none"
  /\ served' = NoServe
  /\ UNCHANGED <<cvRest, atSignal, backend, reconfigCh, disk, rendered, todo, fifos, handle>>

\* The onChange callback, m.mu released: first symlinkMgr.ReconcileWithConfig,
\* which the backend does not see,
BeOnChangeLinks ==
  /\ cbDue = "links"
  /\ cbDue' = "signal"
  /\ signal' = "none"
  /\ served' = NoServe
  /\ UNCHANGED <<ctxVars, cvRest, atSignal, backend, reconfigCh, disk, rendered, todo, fifos,
                 handle>>

\* then backend.Reconfigure(), after which the mutating call returns.
BeOnChange ==
  /\ cbDue = "signal"
  /\ reconfigCh' = Reconfigure(reconfigCh).len
  /\ signal' = Reconfigure(reconfigCh).how
  /\ atSignal' = effective
  /\ cbDue' = "none"
  /\ served' = NoServe
  /\ UNCHANGED <<ctxVars, cvRest, backend, disk, rendered, todo, fifos, handle>>

\* The callback of the template watcher, which runs in the watcher's
\* goroutine when a watched template file was written:
\* backend.Reconfigure().
BeTemplateChanged ==
  /\ reconfigCh' = Reconfigure(reconfigCh).len
  /\ signal' = Reconfigure(reconfigCh).how
  /\ atSignal' = effective
  /\ served' = NoServe
  /\ UNCHANGED <<ctxVars, cvRest, cbDue, backend, disk, rendered, todo, fifos, handle>>

\* Rule 2 of the reload dispatcher, which runs in the goroutine of the
\* reload when settings other than the files have changed: after the
\* symlink reconcile, which the backend does not see, backend.Reconfigure().
BeReloadSignal ==
  /\ reconfigCh' = Reconfigure(reconfigCh).len
  /\ signal' = Reconfigure(reconfigCh).how
  /\ atSignal' = effective
  /\ served' = NoServe
  /\ UNCHANGED <<ctxVars, cvRest, cbDue, backend, disk, rendered, todo, fifos, handle>>

\* A consumer reads a file of the RAM disk: what is at the path now.
TmpfsRead ==
  /\ backend = "tmpfs"
  /\ \E n \in Names :
       /\ disk[n] # NoFile
       /\ served' = [name |-> n, content |-> disk[n]]
  /\ signal' = "none"
  /\ UNCHANGED <<ctxVars, outsideBe, backend, reconfigCh, disk, rendered, todo, fifos, handle>>

\* fifo, serveLoop: a reader has the FIFO of n open and the goroutine of n,
\* running or cancelled since its last look at its context, opens it for
\* writing.  One FIFO is followed at a time.
FifoOpen ==
  /\ backend = "fifo" /\ fd = NoFd
  /\ \E n \in pipes :
       /\ tasks[n] > 0 \/ n \in lingering
       /\ fd' = [name |-> n, pc |-> "resolve", content |-> NoFile]
  /\ signal' = "none"
  /\ served' = NoServe
  /\ UNCHANGED <<ctxVars, rdRest, backend, reconfigCh, disk, rendered, todo, fifos, handle>>

\* serveLoop: b.resolver.Resolve(name), which reads the effective set of
\* this moment; on an error the FIFO is closed and nothing is written.
FifoResolve ==
  /\ backend = "fifo" /\ fd.pc = "resolve"
  /\ \E ok \in BOOLEAN :
       fd' = IF ok /\ LookupFile(fd.name)
               THEN [fd EXCEPT !.pc = "write", !.content = Want(effective, fd.name)]
               ELSE NoFd
  /\ signal' = "none"
  /\ served' = NoServe
  /\ UNCHANGED <<ctxVars, rdRest, backend, reconfigCh, disk, rendered, todo, fifos, handle>>

\* serveLoop: f.Write(content), which the reader receives, and f.Close().
FifoWrite ==
  /\ backend = "fifo" /\ fd.pc = "write"
  /\ served' = [name |-> fd.name, content |-> fd.content]
  /\ fd' = NoFd
  /\ signal' = "none"
  /\ UNCHANGED <<ctxVars, rdRest, backend, reconfigCh, disk, rendered, todo, fifos, handle>>

\* fuse, Lookup and Open: the name must be effective; Open resolves and
\* keeps the content in the handle.
FuseOpen ==
  /\ backend = "fuse" /\ handle = NoHandle
  /\ \E n \in DOMAIN effective :
       handle' = [name |-> n, content |-> Want(effective, n)]
  /\ UNCHANGED <<ctxVars, outsideBe, backend, reconfigCh, disk, rendered, todo, fifos>>
  /\ signal' = "none"
  /\ served' = NoServe

\* fuse, Read: a slice of the handle's content.
FuseRead ==
  /\ backend = "fuse" /\ handle # NoHandle
  /\ served' = [name |-> handle.name, content |-> handle.content]
  /\ UNCHANGED <<ctxVars, outsideBe, backend, reconfigCh, disk, rendered, todo, fifos, handle>>
  /\ signal' = "none"

\* fuse, Release.
FuseRelease ==
  /\ backend = "fuse" /\ handle # NoHandle
  /\ handle' = NoHandle
  /\ UNCHANGED <<ctxVars, outsideBe, backend, reconfigCh, disk, rendered, todo, fifos>>
  /\ signal' = "none"
  /\ served' = NoServe

\* ------------------------------------------------- a cache entry's states
\* An entry is created with a positive TTL; time passes; Fresh, Stale and
\* Expired are asked at one instant.
EntryCreate ==
  /\ probe = NoProbe
  /\ \E ttl \in 1..MaxDur : probe' = [NoProbe EXCEPT !.ttl = ttl]
  /\ UNCHANGED outsideEnt

EntryAge ==
  /\ probe.ttl > 0 /\ probe.age < MaxDur
  /\ probe' = [NoProbe EXCEPT !.ttl = probe.ttl, !.age = probe.age + 1]
  /\ UNCHANGED outsideEnt

EntryAsk ==
  /\ probe.ttl > 0 /\ ~probe.asked
  /\ probe' = [probe EXCEPT !.asked = TRUE,
                            !.fresh = EntryFresh(probe.age, probe.ttl),
                            !.stale = EntryStale(probe.age, probe.ttl),
                            !.expired = EntryExpired(probe.age, probe.ttl)]
  /\ UNCHANGED outsideEnt

EntNext == EntryCreate \/ EntryAge \/ EntryAsk
SpecEntry == Init /\ [][EntNext]_vars

\* ------------------------------------------- the reload dispatcher at work
\* Dispatcher.OnAlways: one more prologue hook, named by its rank.
OnAlways ==
  /\ dispatch.pc = "idle" /\ dispatcher.prologue < MaxPrologue
  /\ dispatcher' = [dispatcher EXCEPT !.prologue = @ + 1]
  /\ UNCHANGED <<dispatch, outsideDsp>>

\* Dispatcher.Register
Register ==
  /\ dispatch.pc = "idle" /\ Len(dispatcher.rules) < MaxRules
  /\ \E r \in Rules : dispatcher' = [dispatcher EXCEPT !.rules = Append(@, r)]
  /\ UNCHANGED <<dispatch, outsideDsp>>

\* Dispatch is called: it starts on the prologue hooks.
DispatchBegin ==
  /\ dispatch.pc = "idle"
  /\ dispatch' = [NoDispatch EXCEPT !.pc = "prologue", !.i = 1]
  /\ UNCHANGED <<dispatcher, outsideDsp>>

\* Dispatch, lines 400-402: the next prologue hook runs, or the loop ends.
DispatchPrologue ==
  /\ dispatch.pc = "prologue"
  /\ dispatch' =
       IF dispatch.i <= dispatcher.prologue
         THEN [dispatch EXCEPT
                 !.trace = Append(@, [hook |-> "prologue", idx |-> dispatch.i, did |-> "call"]),
                 !.i = @ + 1]
         ELSE [dispatch EXCEPT !.pc = "rules", !.i = 1]
  /\ UNCHANGED <<dispatcher, outsideDsp>>

\* Where Dispatch goes after the rule of the given kind has run: a Kill
\* rule returns, the others go on with the loop.
AfterRuleGoOn(kind) == "rules"
AfterRule(kind) == IF kind = "Kill" THEN "done" ELSE "rules"

\* Dispatch, lines 404-423: the next rule is skipped if its Match answers
\* false, and runs otherwise; after the last rule Dispatch returns.
DispatchRule ==
  /\ dispatch.pc = "rules"
  /\ dispatch' =
       IF dispatch.i > Len(dispatcher.rules) THEN [dispatch EXCEPT !.pc = "done"]
       ELSE LET r == dispatcher.rules[dispatch.i]
                did == IF r.kind = "Warn" THEN "log"
                       ELSE IF r.kind = "Callback"
                         THEN (IF r.handle THEN "handle" ELSE "none")
                       ELSE "kill"
            IN IF r.match = "false" THEN [dispatch EXCEPT !.i = @ + 1]
               ELSE [dispatch EXCEPT
                       !.trace = Append(@, [hook |-> "rule", idx |-> dispatch.i, did |-> did]),
                       !.kills = IF r.kind = "Kill" /\ dispatcher.kill THEN @ + 1 ELSE @,
                       !.pc = AfterRule(r.kind),
                       !.i = @ + 1]
  /\ UNCHANGED <<dispatcher, outsideDsp>>

\* Dispatch has returned.
DispatchReturn ==
  /\ dispatch.pc = "done"
  /\ dispatch' = NoDispatch
  /\ UNCHANGED <<dispatcher, outsideDsp>>

DspNext ==
  \/ OnAlways
  \/ Register
  \/ DispatchBegin
  \/ DispatchPrologue
  \/ DispatchRule
  \/ DispatchReturn
InitDispatch ==
  /\ CtxInit /\ RcIdle /\ LockIdle /\ ResIdle /\ BeIdle /\ EntIdle /\ CtlIdle /\ MoreIdle
  /\ \E kill \in BOOLEAN : DspNew(kill)
SpecDispatch == InitDispatch /\ [][DspNext]_vars

\* ---------------------------------------------- the control socket at work
\* Serve: a connection is accepted and handed to handleConn (the semaphore
\* has room for more handlers than the model has connections).
CtlAccept(c) ==
  /\ conns[c].pc = "none"
  /\ \E peer \in Peers :
       conns' = [conns EXCEPT ![c] = [NoConn EXCEPT !.pc = "accepted", !.peer = peer]]
  /\ UNCHANGED <<ctxVars, resVars, outsideCtl>>

\* verifyPeer: nil only if the peer credentials are there and carry the
\* daemon's UID.
VerifyPeerAny(peer) == TRUE
VerifyPeer(peer) == peer = "same"

\* handleConn, lines 135-138: the peer check; on an error the deferred
\* conn.Close runs.
CtlVerify(c) ==
  /\ conns[c].pc = "accepted"
  /\ conns' = [conns EXCEPT ![c] =
       IF VerifyPeer(conns[c].peer)
         THEN [@ EXCEPT !.pc = "verified", !.trace = Append(@, "verify")]
         ELSE [@ EXCEPT !.pc = "closed", !.trace = @ \o <<"verify", "close">>]]
  /\ UNCHANGED <<ctxVars, resVars, outsideCtl>>

\* handleConn, lines 140-155: one line is read and parsed; without a line,
\* or with one that is not JSON, the connection is closed.
CtlRead(c) ==
  /\ conns[c].pc = "verified"
  /\ \E req \in ReqTypes \cup {"", "invalid"} :
       conns' = [conns EXCEPT ![c] =
         IF req \in ReqTypes
           THEN [@ EXCEPT !.pc = "dispatch", !.req = req, !.trace = Append(@, "read")]
           ELSE [@ EXCEPT !.pc = "closed", !.req = req, !.trace = @ \o <<"read", "close">>]]
  /\ UNCHANGED <<ctxVars, resVars, outsideCtl>>

\* handleConn, lines 161-175: the request type picks the handler, and the
\* handler's first access to the shared state is made.  handleActivate takes
\* its snapshot of the effective set (prevEff, line 186); handleDeactivate
\* calls Deactivate with the directory and the session of the request;
\* handleStatus reads the effective set; handleCacheClear clears the cache.
\* An unknown type is answered with an error and the connection is closed.
CtlHandle(c) ==
  /\ conns[c].pc = "dispatch"
  /\ conns' = [conns EXCEPT ![c] =
       IF conns[c].req = "bogus"
         THEN [@ EXCEPT !.pc = "closed", !.trace = Append(@, "close")]
       ELSE IF conns[c].req = "activate"
         THEN [@ EXCEPT !.pc = "call", !.trace = Append(@, "touch")]
       ELSE [@ EXCEPT !.pc = "answer", !.trace = Append(@, "touch")]]
  /\ IF conns[c].req = "deactivate"
       THEN /\ \E dir \in {CtlDir}, session \in 0..MaxPid : Deactivate(dir, session)
            /\ UNCHANGED resVars
     ELSE IF conns[c].req = "cache_clear"
       THEN /\ entries' = SwapCleared(entries)
            /\ rs' = ZeroHeld(rs, DOMAIN entries)
            /\ UNCHANGED <<ctxVars, cipher, swapPc, world, refreshing, refreshers, inflight>>
     ELSE UNCHANGED <<ctxVars, resVars>>
  /\ UNCHANGED outsideCtl

\* handleActivate, line 188: Activate with the directory, the environment
\* (nil when the request has none) and the session of the request.
CtlActivate(c) ==
  /\ conns[c].pc = "call"
  /\ \E dir \in {CtlDir}, env \in Envs, session \in 0..MaxPid, files \in SUBSET Names :
       Activate(dir, env, session, files)
  /\ conns' = [conns EXCEPT ![c].pc = "answer"]
  /\ UNCHANGED <<resVars, outsideCtl>>

\* The rest of the handler: handleActivate reads the effective set again and
\* probe-renders the changed files (lines 197-211).  NewRenderer hands out
\* the shared native renderer, so a probe of a file with a template loads
\* the template through the template cache the resolver uses; the secret
\* cache is left alone.  The answer is written and the deferred conn.Close
\* runs.
CtlAnswer(c) ==
  /\ conns[c].pc = "answer"
  /\ conns' = [conns EXCEPT ![c] = [@ EXCEPT !.pc = "closed", !.trace = Append(@, "close")]]
  /\ IF conns[c].req = "activate"
       THEN tplCache' \in {tplCache, LoadTemplate(tplFile, tplCache).cache}
       ELSE UNCHANGED tplCache
  /\ UNCHANGED <<ctxVars, resVars, rcVars, lockVars, beVars, entVars, dspVars, restTpl, tplFile>>

\* The connection is gone.
CtlGone(c) ==
  /\ conns[c].pc = "closed"
  /\ conns' = [conns EXCEPT ![c] = NoConn]
  /\ UNCHANGED <<ctxVars, resVars, outsideCtl>>

CtlNext ==
  \E c \in Conns :
    \/ CtlAccept(c)
    \/ CtlVerify(c)
    \/ CtlRead(c)
    \/ CtlHandle(c)
    \/ CtlActivate(c)
    \/ CtlAnswer(c)
    \/ CtlGone(c)
\* The daemon serves with a secret in its cache.
ResWarm ==
  /\ cipher = 1
  /\ swapPc = "idle"
  /\ world = 0
  /\ entries = [k \in {ComputeCacheKey(KeyInput(n, NilEnv)) : n \in GlobalFiles} |->
                  [ct |-> CipherEncrypt(1, RenderOut(k.FilePath)), age |-> 0]]
  /\ rs = [r \in Resolvers |-> IdleRs]
  /\ refreshing = {}
  /\ refreshers = [n \in Names |-> NoRef]
  /\ inflight = [n \in Names |-> 0]
InitControl ==
  CtxInit /\ MoreIdle /\ RcIdle /\ LockIdle /\ ResWarm /\ BeIdle /\ EntIdle /\ DspIdle /\ CtlIdle
SpecControl == InitControl /\ [][CtlNext]_vars

\* ------------------------------------------------ the refcount scenario
\* N distinct sessions activate one directory, then some of them deactivate
\* it once each; meanwhile other sessions work on the other directories.
RcDir == 1

RcActivate ==
  \E pid \in Pids \ joined, env \in Envs, files \in SUBSET Names :
    /\ left = {}
    /\ Activate(RcDir, env, pid, files)
    /\ joined' = IF last'.err = "nil" THEN joined \cup {pid} ELSE joined
    /\ UNCHANGED <<left, outsideRc>>

RcDeactivate ==
  \E pid \in joined \ left :
    /\ Deactivate(RcDir, pid)
    /\ left' = left \cup {pid}
    /\ UNCHANGED <<joined, outsideRc>>

RcOtherActivate ==
  \E dir \in Dirs \ {RcDir}, env \in Envs, pid \in (0..MaxPid) \ joined,
     files \in SUBSET Names :
    Activate(dir, env, pid, files) /\ UNCHANGED outsideCtx

RcOtherDeactivate ==
  \E dir \in Dirs \ {RcDir}, pid \in (0..MaxPid) \ joined :
    Deactivate(dir, pid) /\ UNCHANGED outsideCtx

RcOtherRemoveSession ==
  \E pid \in Pids \ joined : RemoveSession(pid) /\ UNCHANGED outsideCtx

RcNext ==
  \/ RcActivate
  \/ RcDeactivate
  \/ RcOtherActivate
  \/ RcOtherDeactivate
  \/ RcOtherRemoveSession
SpecRefCount == Init /\ [][RcNext]_vars


\* ------------------------------------------------- the connection handlers
\* The accept loop of Serve and the handler goroutines, counted by where
\* they are in handleConn.
Running(h) == h["verify"] + h["read"] + h["dispatch"] + h["release"]

\* select { case s.sem <- struct{}{}: ... default: ... }: the send succeeds
\* while the channel has room.
SemAcquireAlways(n) == TRUE
SemAcquire(n) == n < SemCap

\* Serve: a connection is accepted; with a token it gets a handler
\* goroutine, without one it is closed on the spot.
SrvAccept ==
  \E peer \in Peers :
    IF SemAcquire(sem)
      THEN /\ sem' = sem + 1
           /\ handlers' = [handlers EXCEPT !["verify"] = @ + 1]
           /\ accepted' = [how |-> "handler", peer |-> peer, trace |-> <<>>]
      ELSE /\ accepted' = [how |-> "rejected", peer |-> peer, trace |-> <<"close">>]
           /\ UNCHANGED <<sem, handlers>>

Move(h, from, to) == [h EXCEPT ![from] = @ - 1, ![to] = @ + 1]

\* handleConn: verifyPeer passes or returns.
SrvVerify ==
  /\ handlers["verify"] > 0
  /\ \E peer \in Peers :
       handlers' = Move(handlers, "verify", IF VerifyPeer(peer) THEN "read" ELSE "release")
  /\ accepted' = NoAccept
  /\ UNCHANGED sem

\* handleConn: the request line is read and parsed, or the scan fails.
SrvRead ==
  /\ handlers["read"] > 0
  /\ \E ok \in BOOLEAN :
       handlers' = Move(handlers, "read", IF ok THEN "dispatch" ELSE "release")
  /\ accepted' = NoAccept
  /\ UNCHANGED sem

\* handleConn: the request is dispatched and answered.
SrvDispatch ==
  /\ handlers["dispatch"] > 0
  /\ handlers' = Move(handlers, "dispatch", "release")
  /\ accepted' = NoAccept
  /\ UNCHANGED sem

\* defer func() { <-s.sem }()
SrvRelease ==
  /\ handlers["release"] > 0
  /\ sem' = sem - 1
  /\ handlers' = [handlers EXCEPT !["release"] = @ - 1]
  /\ accepted' = NoAccept

SrvNext ==
  \/ SrvAccept /\ UNCHANGED outsideSrv
  \/ SrvVerify /\ UNCHANGED outsideSrv
  \/ SrvRead /\ UNCHANGED outsideSrv
  \/ SrvDispatch /\ UNCHANGED outsideSrv
  \/ SrvRelease /\ UNCHANGED outsideSrv
SpecServe == Init /\ [][SrvNext]_vars


\* ------------------------------------------------------------ Server.Listen
\* Daemons of one user start on the same socket path.  The socket file left
\* by a bind stays on the path when its daemon dies without closing, so a
\* file whose maker no longer listens is a stale socket.
Live(file, lst) == file # NoSock /\ file \in lst

\* Listen is called: MkdirAll on the socket directory.
LsnStart(d) ==
  /\ lpc[d] = "idle"
  /\ lpc' = [lpc EXCEPT ![d] = "stat"]
  /\ UNCHANGED <<sockFile, listening, stolen>>

\* os.Stat(s.socketPath): a file is there, or not.
LsnStat(d) ==
  /\ lpc[d] = "stat"
  /\ lpc' = [lpc EXCEPT ![d] = IF sockFile # NoSock THEN "dial" ELSE "bind"]
  /\ UNCHANGED <<sockFile, listening, stolen>>

\* net.DialTimeout: connects when a daemon listens on the file; then Listen
\* returns the "already listening" error.  Otherwise the file is taken for
\* a stale socket.
LsnDial(d) ==
  /\ lpc[d] = "dial"
  /\ lpc' = [lpc EXCEPT ![d] = IF Live(sockFile, listening) THEN "err" ELSE "remove"]
  /\ UNCHANGED <<sockFile, listening, stolen>>

\* os.Remove(s.socketPath) takes away whatever is on the path now.
LsnRemove(d) ==
  /\ lpc[d] = "remove"
  /\ sockFile' = NoSock
  /\ stolen' = IF Live(sockFile, listening) THEN stolen \cup {sockFile} ELSE stolen
  /\ lpc' = [lpc EXCEPT ![d] = "bind"]
  /\ UNCHANGED listening

\* net.Listen("unix", path): binds when the path is free, else fails with
\* "address already in use".
LsnBind(d) ==
  /\ lpc[d] = "bind"
  /\ IF sockFile = NoSock
       THEN /\ sockFile' = d
            /\ listening' = listening \cup {d}
            /\ lpc' = [lpc EXCEPT ![d] = "ok"]
       ELSE /\ lpc' = [lpc EXCEPT ![d] = "err"]
            /\ UNCHANGED <<sockFile, listening>>
  /\ UNCHANGED stolen

\* The daemon whose Listen failed exits; it may be started again.
LsnGiveUp(d) ==
  /\ lpc[d] = "err"
  /\ lpc' = [lpc EXCEPT ![d] = "idle"]
  /\ UNCHANGED <<sockFile, listening, stolen>>

\* Serve's shutdown goroutine, first call: ln.Close() closes the listener
\* and unlinks the socket path, whatever file is on the path by then.
LsnClose(d) ==
  /\ lpc[d] = "ok"
  /\ listening' = listening \ {d}
  /\ sockFile' = NoSock
  /\ stolen' = IF Live(sockFile, listening \ {d}) THEN stolen \cup {sockFile} ELSE stolen
  /\ lpc' = [lpc EXCEPT ![d] = "closed"]

\* Serve's shutdown goroutine, second call: os.Remove(s.socketPath), a
\* system call of its own: a Listen of another daemon can have bound the
\* path since ln.Close().
LsnCloseRemove(d) ==
  /\ lpc[d] = "closed"
  /\ sockFile' = NoSock
  /\ stolen' = IF Live(sockFile, listening) THEN stolen \cup {sockFile} ELSE stolen
  /\ lpc' = [lpc EXCEPT ![d] = "idle"]
  /\ UNCHANGED listening

\* The daemon is killed: its listener is gone, the file stays.
LsnCrash(d) ==
  /\ lpc[d] = "ok"
  /\ listening' = listening \ {d}
  /\ lpc' = [lpc EXCEPT ![d] = "idle"]
  /\ UNCHANGED <<sockFile, stolen>>

LsnNext ==
  \E d \in Daemons :
    \/ LsnStart(d) /\ UNCHANGED outsideLsn
    \/ LsnStat(d) /\ UNCHANGED outsideLsn
    \/ LsnDial(d) /\ UNCHANGED outsideLsn
    \/ LsnRemove(d) /\ UNCHANGED outsideLsn
    \/ LsnBind(d) /\ UNCHANGED outsideLsn
    \/ LsnGiveUp(d) /\ UNCHANGED outsideLsn
    \/ LsnClose(d) /\ UNCHANGED outsideLsn
    \/ LsnCloseRemove(d) /\ UNCHANGED outsideLsn
    \/ LsnCrash(d) /\ UNCHANGED outsideLsn
SpecListen == Init /\ [][LsnNext]_vars


\* ------------------------------------------------------- the config watcher
\* config.Load: read, parse, fill the defaults, validate.
LoadLenient(file) == [err |-> FALSE, id |-> file.id]
Load(file) ==
  IF file.kind = "ok" THEN [err |-> FALSE, id |-> file.id]
  ELSE [err |-> TRUE, id |-> 0]

\* Diff(old, new).HasChanges()
HasChanges(old, new) == old # new

\* The user, or an editor, rewrites the config file.
CfgWrite ==
  /\ \E f \in DiskStates : f # cfgDisk /\ cfgDisk' = f
  /\ cfgCall' = NoReloadCall
  /\ UNCHANGED <<cfgCurrent, reloads, cfgFailed>>

\* The debounce timer fires, or ForceReload is called.
ReloadBegin(r) ==
  /\ reloads[r].pc = "idle"
  /\ reloads' = [reloads EXCEPT ![r] = [NoReload EXCEPT !.pc = "load"]]
  /\ cfgCall' = NoReloadCall
  /\ UNCHANGED <<cfgDisk, cfgCurrent, cfgFailed>>

\* reload: Load(cw.path); on an error it logs and returns.
ReloadLoad(r) ==
  /\ reloads[r].pc = "load"
  /\ LET l == Load(cfgDisk) IN
       IF l.err
         THEN /\ reloads' = [reloads EXCEPT ![r] = NoReload]
              /\ cfgCall' = [NoReloadCall EXCEPT !.how = "failed"]
              /\ cfgFailed' = TRUE
         ELSE /\ reloads' = [reloads EXCEPT ![r] = [pc |-> "lock", new |-> l.id, old |-> 0]]
              /\ cfgCall' = NoReloadCall
              /\ UNCHANGED cfgFailed
  /\ UNCHANGED <<cfgDisk, cfgCurrent>>

\* reload, under cw.mu: diff against cw.current; return when nothing has
\* changed, else assign cw.current.
ReloadCommit(r) ==
  /\ reloads[r].pc = "lock"
  /\ IF HasChanges(cfgCurrent, reloads[r].new)
       THEN /\ cfgCurrent' = reloads[r].new
            /\ reloads' = [reloads EXCEPT ![r] = [pc |-> "callback", new |-> reloads[r].new,
                                                  old |-> cfgCurrent]]
            /\ cfgCall' = [how |-> "assigned", old |-> cfgCurrent, new |-> reloads[r].new,
                           afterFail |-> cfgFailed]
            /\ cfgFailed' = FALSE
       ELSE /\ reloads' = [reloads EXCEPT ![r] = NoReload]
            /\ cfgCall' = [NoReloadCall EXCEPT !.how = "same"]
            /\ UNCHANGED <<cfgCurrent, cfgFailed>>
  /\ UNCHANGED cfgDisk

\* reload: cw.onReload(old, newCfg, diff)
ReloadCallback(r) ==
  /\ reloads[r].pc = "callback"
  /\ cfgCall' = [how |-> "called", old |-> reloads[r].old, new |-> reloads[r].new,
                 afterFail |-> FALSE]
  /\ reloads' = [reloads EXCEPT ![r] = NoReload]
  /\ UNCHANGED <<cfgDisk, cfgCurrent, cfgFailed>>

CfgNext ==
  \/ CfgWrite /\ UNCHANGED outsideCfg
  \/ \E r \in Reloaders :
       \/ ReloadBegin(r) /\ UNCHANGED outsideCfg
       \/ ReloadLoad(r) /\ UNCHANGED outsideCfg
       \/ ReloadCommit(r) /\ UNCHANGED outsideCfg
       \/ ReloadCallback(r) /\ UNCHANGED outsideCfg
SpecReload == Init /\ [][CfgNext]_vars


\* ------------------------------------------------------------ Backend.Mount
\* The life of a tmpfs or fifo backend: Mount sets the presentation up,
\* loops on its select and tears down when its context is cancelled, while
\* activations change the effective set and signal the backend.
outsideMount == <<rcVars, lockVars, resVars, entVars, dspVars, ctlVars, restMnt>>
beRest == <<backend, handle>>
scrubOnly == <<toScrub, departed, scrubErrs, rawRemoved, scrubAt>>
tmpfsOnly == <<scrubOnly, todo, disk, rendered>>
fifoOnly == <<cancels, tasks, lingering, pipes, fifos, fifoErrs>>

\* New: nothing is mounted, nothing is rendered, no FIFO exists.
Unmounted ==
  /\ backend \in {"tmpfs", "fifo"}
  /\ reconfigCh = 0
  /\ signal = "none"
  /\ disk = [n \in Names |-> NoFile]
  /\ rendered = {}
  /\ todo = {}
  /\ fifos = {}
  /\ handle = NoHandle
  /\ served = NoServe

\* case <-ctx.Done(): ready once the context is cancelled.
Done(c) == c

\* reconcileFIFOs, under b.mu.  For each FIFO whose file has departed: its
\* task is cancelled and the FIFO removed (rmFail: the removals that fail),
\* and it leaves b.fifos either way.  For each file without a FIFO: mkfifo
\* (mkFail: those that fail and are skipped) and a serve goroutine on a child
\* of ctx, which is cancelled from the start when ctx is.
ReconcileRespawn(files, done, rmFail, mkFail) ==
  LET gone == fifos \ files
      made == files \ mkFail
  IN [fifos |-> (fifos \ gone) \cup made,
      cancels |-> (cancels \ gone) \cup made,
      tasks |-> [n \in Names |->
                   IF n \in gone \cap cancels THEN 0
                   ELSE IF n \in made /\ ~done THEN tasks[n] + 1
                   ELSE tasks[n]],
      lingering |-> lingering \cup {n \in gone \cap cancels : tasks[n] > 0}
                      \cup (IF done THEN made ELSE {}),
      pipes |-> (pipes \ (gone \ rmFail)) \cup made]
ReconcileFIFOs(files, done, rmFail, mkFail) ==
  LET gone == fifos \ files
      made == (files \ fifos) \ mkFail
  IN [fifos |-> (fifos \ gone) \cup made,
      cancels |-> (cancels \ gone) \cup made,
      tasks |-> [n \in Names |->
                   IF n \in gone \cap cancels THEN 0
                   ELSE IF n \in made /\ ~done THEN tasks[n] + 1
                   ELSE tasks[n]],
      lingering |-> lingering \cup {n \in gone \cap cancels : tasks[n] > 0}
                      \cup (IF done THEN made ELSE {}),
      pipes |-> (pipes \ (gone \ rmFail)) \cup made]

\* Mount is called.  tmpfs: mounter.Mount, and renderAll is next.  fifo:
\* MkdirAll, and reconcileFIFOs is next.  When the step fails Mount returns
\* the error.
MntStart ==
  /\ mpc = "idle" /\ mret = "none"
  /\ \E ok \in BOOLEAN :
       IF ~ok
         THEN /\ mpc' = "returned" /\ mret' = "error"
              /\ UNCHANGED mounted
         ELSE /\ mpc' = IF backend = "tmpfs" THEN "initRenderAll" ELSE "reconcile"
              /\ mounted' = (backend = "tmpfs")
              /\ UNCHANGED mret
  /\ signal' = "none"
  /\ served' = NoServe
  /\ UNCHANGED <<ctxVars, outsideMount, beRest, reconfigCh, ctxDone, tmpfsOnly, fifoOnly>>

\* The context of Mount is cancelled, and with it the contexts of the
\* serve goroutines, its children.
MntCancel ==
  /\ ~ctxDone /\ mret = "none"
  /\ ctxDone' = TRUE
  /\ tasks' = [n \in Names |-> 0]
  /\ lingering' = lingering \cup {n \in Names : tasks[n] > 0}
  /\ signal' = "none"
  /\ served' = NoServe
  /\ UNCHANGED <<ctxVars, outsideMount, beRest, reconfigCh, mpc, mret, mounted, tmpfsOnly,
                 cancels, pipes, fifos, fifoErrs>>

\* serveLoop sees its context cancelled and returns; the goroutine that
\* has its FIFO open does after it has closed it.
TaskExit ==
  /\ \E n \in lingering : fd.name # n /\ lingering' = lingering \ {n}
  /\ signal' = "none"
  /\ served' = NoServe
  /\ UNCHANGED <<ctxVars, outsideMount, beRest, reconfigCh, mpc, ctxDone, mret, mounted, tmpfsOnly,
                 cancels, tasks, pipes, fifos, fifoErrs>>

\* serveLoop: opening the FIFO fails with something else than ENXIO (the
\* FIFO is gone, say); the goroutine returns and stays in b.cancels.
TaskOpenFails ==
  /\ mret = "none"
  /\ \E n \in Names :
       /\ tasks[n] > 0
       /\ fd.name # n
       /\ tasks' = [tasks EXCEPT ![n] = @ - 1]
       /\ fifoErrs' = fifoErrs \cup {n}
  /\ signal' = "none"
  /\ served' = NoServe
  /\ UNCHANGED <<ctxVars, outsideMount, beRest, reconfigCh, mpc, ctxDone, mret, mounted, tmpfsOnly,
                 cancels, lingering, pipes, fifos>>

\* fifo, case <-b.reconfigCh: the signal is received, and reconcileFIFOs
\* is next.
FifoSelectReconfigure ==
  /\ backend = "fifo" /\ mpc = "select" /\ reconfigCh > 0
  /\ reconfigCh' = reconfigCh - 1
  /\ mpc' = "reconcile"
  /\ signal' = "none"
  /\ served' = NoServe
  /\ UNCHANGED <<ctxVars, outsideMount, beRest, ctxDone, mret, mounted, tmpfsOnly, fifoOnly>>

\* reconcileFIFOs, line 123: files := b.effectiveFiles(), the effective set
\* of this moment, read under the read lock of the context manager.
FifoEffectiveFiles ==
  /\ backend = "fifo" /\ mpc = "reconcile"
  /\ todo' = DOMAIN effective
  /\ mpc' = "reconcileLocked"
  /\ signal' = "none"
  /\ served' = NoServe
  /\ UNCHANGED <<ctxVars, outsideMount, beRest, reconfigCh, ctxDone, mret, mounted, scrubOnly,
                 disk, rendered, fifoOnly>>

\* reconcileFIFOs, lines 125-174, under b.mu: the FIFOs are brought to the
\* files that were read.
FifoReconcile ==
  /\ backend = "fifo" /\ mpc = "reconcileLocked"
  /\ \E rmFail \in SUBSET (fifos \ todo), mkFail \in SUBSET (todo \ fifos) :
       LET r == ReconcileFIFOs(todo, ctxDone, rmFail, mkFail)
       IN /\ fifos' = r.fifos /\ cancels' = r.cancels /\ tasks' = r.tasks
          /\ lingering' = r.lingering /\ pipes' = r.pipes
          /\ fifoErrs' = fifoErrs \cup rmFail \cup mkFail
  /\ todo' = {}
  /\ mpc' = "select"
  /\ signal' = "none"
  /\ served' = NoServe
  /\ UNCHANGED <<ctxVars, outsideMount, beRest, reconfigCh, ctxDone, mret, mounted, scrubOnly,
                 disk, rendered>>

\* teardown, under b.mu: every task is cancelled, every FIFO removed
\* (rmFail: the removals that fail) and both maps are emptied.
Teardown ==
  /\ \E rmFail \in SUBSET fifos :
       /\ pipes' = pipes \ (fifos \ rmFail)
       /\ fifoErrs' = fifoErrs \cup rmFail
  /\ lingering' = lingering \cup {n \in cancels : tasks[n] > 0}
  /\ tasks' = [n \in Names |-> IF n \in cancels THEN 0 ELSE tasks[n]]
  /\ cancels' = {}
  /\ fifos' = {}

\* fifo, case <-ctx.Done(): teardown, and Mount returns nil.
FifoSelectDone ==
  /\ backend = "fifo" /\ mpc = "select" /\ Done(ctxDone)
  /\ Teardown
  /\ mpc' = "returned" /\ mret' = "nil"
  /\ signal' = "none"
  /\ served' = NoServe
  /\ UNCHANGED <<ctxVars, outsideMount, beRest, reconfigCh, ctxDone, mounted, tmpfsOnly>>

\* tmpfs, case <-ticker.C: renderAll is next.
TmpfsSelectTick ==
  /\ backend = "tmpfs" /\ mpc = "select"
  /\ mpc' = "tickRenderAll"
  /\ signal' = "none"
  /\ served' = NoServe
  /\ UNCHANGED <<ctxVars, outsideMount, beRest, reconfigCh, ctxDone, mret, mounted, fifoOnly,
                 tmpfsOnly>>

\* tmpfs, case <-b.reconfigCh: the signal is received, and reconcileFiles
\* is next.
TmpfsSelectReconfigure ==
  /\ backend = "tmpfs" /\ mpc = "select" /\ reconfigCh > 0
  /\ reconfigCh' = reconfigCh - 1
  /\ mpc' = "reconcile"
  /\ signal' = "none"
  /\ served' = NoServe
  /\ UNCHANGED <<ctxVars, outsideMount, beRest, ctxDone, mret, mounted, fifoOnly, tmpfsOnly>>

\* renderAll and reconcileFiles, first line: files :=
\* b.effectiveFileNames(), the effective set of this moment, read under the
\* read lock of the context manager.
TmpfsEffectiveFileNames ==
  /\ backend = "tmpfs" /\ mpc \in {"initRenderAll", "tickRenderAll", "reconcile"}
  /\ todo' = DOMAIN effective
  /\ mpc' = CASE mpc = "initRenderAll" -> "initRender"
              [] mpc = "tickRenderAll" -> "tickRender"
              [] OTHER -> "reconcileLocked"
  /\ signal' = "none"
  /\ served' = NoServe
  /\ UNCHANGED <<ctxVars, outsideMount, beRest, reconfigCh, ctxDone, mret, mounted, fifoOnly,
                 scrubOnly, disk, rendered>>

\* reconcileFiles, lines 514-526, under b.mu: the rendered files that are
\* not among the files read are taken out of b.rendered, to be scrubbed.
TmpfsReconcileRemove ==
  /\ backend = "tmpfs" /\ mpc = "reconcileLocked"
  /\ LET toRemove == rendered \ todo
     IN /\ rendered' = rendered \ toRemove
        /\ toScrub' = toRemove
        /\ departed' = toRemove
  /\ mpc' = "scrubRemoved"
  /\ signal' = "none"
  /\ served' = NoServe
  /\ UNCHANGED <<ctxVars, outsideMount, beRest, reconfigCh, ctxDone, mret, mounted, fifoOnly,
                 scrubErrs, rawRemoved, scrubAt, todo, disk>>

\* tmpfs, case <-ctx.Done(): scrubAll clones b.rendered and scrubs it.
TmpfsSelectDone ==
  /\ backend = "tmpfs" /\ mpc = "select" /\ Done(ctxDone)
  /\ toScrub' = rendered
  /\ mpc' = "scrubAll"
  /\ signal' = "none"
  /\ served' = NoServe
  /\ UNCHANGED <<ctxVars, outsideMount, beRest, reconfigCh, ctxDone, mret, mounted, fifoOnly,
                 departed, scrubErrs, rawRemoved, scrubAt, todo, disk, rendered>>

\* scrubFile, up to the sync: a file that is not there is done with; else
\* it is opened and overwritten with zeros over its whole size.  On an
\* error scrubFile returns and the file stays as it is.
ScrubZero(d, n) == IF d[n] = NoFile THEN NoFile ELSE ZeroFile
TmpfsScrubZero ==
  /\ backend = "tmpfs" /\ mpc \in {"scrubRemoved", "scrubAll"} /\ scrubAt = ""
  /\ \E n \in toScrub, ok \in BOOLEAN :
       IF disk[n] = NoFile
         THEN /\ toScrub' = toScrub \ {n}
              /\ UNCHANGED <<disk, scrubErrs, rawRemoved, scrubAt>>
         ELSE IF ok
           THEN /\ disk' = [disk EXCEPT ![n] = ScrubZero(disk, n)]
                /\ rawRemoved' = IF disk'[n] = NoFile THEN rawRemoved \cup {n} ELSE rawRemoved
                /\ toScrub' = IF disk'[n] = NoFile THEN toScrub \ {n} ELSE toScrub
                /\ scrubAt' = IF disk'[n] = NoFile THEN "" ELSE n
                /\ UNCHANGED scrubErrs
           ELSE /\ toScrub' = toScrub \ {n}
                /\ scrubErrs' = scrubErrs \cup {n}
                /\ UNCHANGED <<disk, rawRemoved, scrubAt>>
  /\ signal' = "none"
  /\ served' = NoServe
  /\ UNCHANGED <<ctxVars, outsideMount, beRest, reconfigCh, mpc, ctxDone, mret, mounted, fifoOnly,
                 departed, todo, rendered>>

\* scrubFile, os.Remove of the file it has zeroed: what is at the path
\* goes; a path with nothing at it is an error, as any failure is.
TmpfsScrubRemove ==
  /\ backend = "tmpfs" /\ mpc \in {"scrubRemoved", "scrubAll"} /\ scrubAt # ""
  /\ \E ok \in BOOLEAN :
       IF ok /\ disk[scrubAt] # NoFile
         THEN /\ disk' = [disk EXCEPT ![scrubAt] = NoFile]
              /\ rawRemoved' = IF disk[scrubAt] = ZeroFile THEN rawRemoved
                               ELSE rawRemoved \cup {scrubAt}
              /\ UNCHANGED scrubErrs
         ELSE /\ scrubErrs' = scrubErrs \cup {scrubAt}
              /\ UNCHANGED <<disk, rawRemoved>>
  /\ toScrub' = toScrub \ {scrubAt}
  /\ scrubAt' = ""
  /\ signal' = "none"
  /\ served' = NoServe
  /\ UNCHANGED <<ctxVars, outsideMount, beRest, reconfigCh, mpc, ctxDone, mret, mounted, fifoOnly,
                 departed, todo, rendered>>

\* The scrub loop is over: reconcileFiles goes on to render, Mount goes on
\* to unmount.
TmpfsScrubEnd ==
  /\ backend = "tmpfs" /\ mpc \in {"scrubRemoved", "scrubAll"} /\ toScrub = {}
  /\ scrubAt = ""
  /\ mpc' = IF mpc = "scrubRemoved" THEN "reconcileRender" ELSE "unmount"
  /\ signal' = "none"
  /\ served' = NoServe
  /\ UNCHANGED <<ctxVars, outsideMount, beRest, reconfigCh, ctxDone, mret, mounted, fifoOnly,
                 tmpfsOnly>>

\* renderFile: resolve now and write the file atomically; on an error the
\* file is skipped and what is on the disk stays.
TmpfsRender ==
  /\ backend = "tmpfs" /\ mpc \in {"initRender", "tickRender", "reconcileRender"}
  /\ \E n \in todo, ok \in BOOLEAN :
       /\ todo' = todo \ {n}
       /\ IF ok /\ LookupFile(n)
            THEN /\ disk' = [disk EXCEPT ![n] = Want(effective, n)]
                 /\ rendered' = rendered \cup {n}
                 /\ scrubErrs' = scrubErrs \ {n}
            ELSE UNCHANGED <<disk, rendered, scrubErrs>>
  /\ signal' = "none"
  /\ served' = NoServe
  /\ UNCHANGED <<ctxVars, outsideMount, beRest, reconfigCh, mpc, ctxDone, mret, mounted, fifoOnly,
                 toScrub, departed, rawRemoved, scrubAt>>

\* The render loop is over: back to the select.
TmpfsRenderEnd ==
  /\ backend = "tmpfs" /\ mpc \in {"initRender", "tickRender", "reconcileRender"}
  /\ todo = {}
  /\ mpc' = "select"
  /\ signal' = "none"
  /\ served' = NoServe
  /\ UNCHANGED <<ctxVars, outsideMount, beRest, reconfigCh, ctxDone, mret, mounted, fifoOnly,
                 tmpfsOnly>>

\* tmpfs: mounter.Unmount releases the RAM disk with whatever is still on
\* it; its error is only logged.  Mount returns nil.
TmpfsUnmount ==
  /\ backend = "tmpfs" /\ mpc = "unmount"
  /\ \E ok \in BOOLEAN :
       /\ IF ok
            THEN /\ disk' = [n \in Names |-> NoFile]
                 /\ rawRemoved' = rawRemoved \cup {n \in Names : disk[n] \notin {NoFile, ZeroFile}}
            ELSE UNCHANGED <<disk, rawRemoved>>
       /\ mounted' = (mounted /\ ~ok)
  /\ mpc' = "returned" /\ mret' = "nil"
  /\ signal' = "none"
  /\ served' = NoServe
  /\ UNCHANGED <<ctxVars, outsideMount, beRest, reconfigCh, ctxDone, fifoOnly,
                 toScrub, departed, scrubErrs, scrubAt, todo, rendered>>

\* Backend.Unmount, which whoever holds the backend may call at any time,
\* Mount running or not.  What it leaves alone:
unmountRest == <<rcVars, lockVars, resVars, entVars, dspVars, ctlVars,
                 srvVars, lsnVars, cfgVars, slkVars, fpVars, lkVars, cvVars, cbVars, roVars,
                 dmVars, tplVars, swVars, rdVars>>

\* fifo, Unmount: teardown.
FifoUnmount ==
  /\ backend = "fifo" /\ upc = "idle"
  /\ Teardown
  /\ upc' = "returned"
  /\ signal' = "none"
  /\ served' = NoServe
  /\ UNCHANGED <<ctxVars, unmountRest, beRest, reconfigCh, tmpfsOnly, mpc, ctxDone, mret, mounted,
                 uScrub, uAt>>

\* tmpfs, Unmount: scrubAll clones b.rendered under b.mu,
UnmountCall ==
  /\ backend = "tmpfs" /\ upc = "idle"
  /\ upc' = "scrubAll"
  /\ uScrub' = rendered
  /\ signal' = "none"
  /\ served' = NoServe
  /\ UNCHANGED <<ctxVars, unmountRest, mntVars, beRest, reconfigCh, disk, rendered, todo,
                 fifos, uAt>>

\* scrubs each file of the clone (scrubFile up to the sync,
UnmountScrubZero ==
  /\ backend = "tmpfs" /\ upc = "scrubAll" /\ uAt = ""
  /\ \E n \in uScrub, ok \in BOOLEAN :
       IF disk[n] = NoFile
         THEN /\ uScrub' = uScrub \ {n}
              /\ UNCHANGED <<disk, scrubErrs, uAt>>
         ELSE IF ok
           THEN /\ disk' = [disk EXCEPT ![n] = ZeroFile]
                /\ uAt' = n
                /\ UNCHANGED <<uScrub, scrubErrs>>
           ELSE /\ uScrub' = uScrub \ {n}
                /\ scrubErrs' = scrubErrs \cup {n}
                /\ UNCHANGED <<disk, uAt>>
  /\ signal' = "none"
  /\ served' = NoServe
  /\ UNCHANGED <<ctxVars, unmountRest, beRest, reconfigCh, fifoOnly, mpc, ctxDone, mret, mounted,
                 toScrub, departed, rawRemoved, scrubAt, todo, rendered, upc>>

\* and its os.Remove, which takes what is at the path by then),
UnmountScrubRemove ==
  /\ backend = "tmpfs" /\ upc = "scrubAll" /\ uAt # ""
  /\ \E ok \in BOOLEAN :
       IF ok /\ disk[uAt] # NoFile
         THEN /\ disk' = [disk EXCEPT ![uAt] = NoFile]
              /\ rawRemoved' = IF disk[uAt] = ZeroFile THEN rawRemoved
                               ELSE rawRemoved \cup {uAt}
              /\ UNCHANGED scrubErrs
         ELSE /\ scrubErrs' = scrubErrs \cup {uAt}
              /\ UNCHANGED <<disk, rawRemoved>>
  /\ uScrub' = uScrub \ {uAt}
  /\ uAt' = ""
  /\ signal' = "none"
  /\ served' = NoServe
  /\ UNCHANGED <<ctxVars, unmountRest, beRest, reconfigCh, fifoOnly, mpc, ctxDone, mret, mounted,
                 toScrub, departed, scrubAt, todo, rendered, upc>>

\* and returns what mounter.Unmount returns, the RAM disk released with
\* whatever is on it by then.
UnmountRelease ==
  /\ backend = "tmpfs" /\ upc = "scrubAll" /\ uScrub = {} /\ uAt = ""
  /\ \E ok \in BOOLEAN :
       /\ IF ok
            THEN /\ disk' = [n \in Names |-> NoFile]
                 /\ rawRemoved' = rawRemoved \cup {n \in Names : disk[n] \notin {NoFile, ZeroFile}}
            ELSE UNCHANGED <<disk, rawRemoved>>
       /\ mounted' = (mounted /\ ~ok)
  /\ upc' = "returned"
  /\ signal' = "none"
  /\ served' = NoServe
  /\ UNCHANGED <<ctxVars, unmountRest, beRest, reconfigCh, fifoOnly, mpc, ctxDone, mret,
                 toScrub, departed, scrubErrs, scrubAt, todo, rendered, uScrub, uAt>>

\* The directory that is activated and deactivated while Mount is watched.
MntDir == 1
MntNext ==
  \/ mret = "none" /\ BeActivate({MntDir})
  \/ mret = "none" /\ BeDeactivate({MntDir})
  \/ BeOnChangeLinks
  \/ BeOnChange
  \/ mret = "none" /\ BeTemplateChanged
  \/ mret = "none" /\ BeReloadSignal
  \/ MntStart
  \/ MntCancel
  \/ TaskExit
  \/ TaskOpenFails
  \/ FifoSelectReconfigure
  \/ FifoEffectiveFiles
  \/ FifoReconcile
  \/ FifoSelectDone
  \/ TmpfsSelectTick
  \/ TmpfsSelectReconfigure
  \/ TmpfsEffectiveFileNames
  \/ TmpfsReconcileRemove
  \/ TmpfsSelectDone
  \/ TmpfsScrubZero
  \/ TmpfsScrubRemove
  \/ TmpfsScrubEnd
  \/ TmpfsRender
  \/ TmpfsRenderEnd
  \/ TmpfsUnmount
InitMount ==
  CtxInit /\ RcIdle /\ LockIdle /\ ResIdle /\ Unmounted /\ EntIdle /\ DspIdle /\ CtlIdle /\ MoreIdle
SpecMount == InitMount /\ [][MntNext]_vars

\* Mount runs in a goroutine of its own, so each of its steps is taken when
\* it stays possible; the select chooses at random among its ready cases,
\* so the case of the cancelled context, ready at every select from the
\* cancellation on, is taken in the end.
MntFair ==
  /\ WF_vars(FifoEffectiveFiles) /\ WF_vars(FifoReconcile)
  /\ WF_vars(TmpfsEffectiveFileNames) /\ WF_vars(TmpfsReconcileRemove)
  /\ WF_vars(TmpfsRender) /\ WF_vars(TmpfsRenderEnd)
  /\ WF_vars(TmpfsScrubZero) /\ WF_vars(TmpfsScrubRemove) /\ WF_vars(TmpfsScrubEnd)
  /\ WF_vars(TmpfsUnmount)
  /\ SF_vars(TmpfsSelectDone) /\ SF_vars(FifoSelectDone)
SpecMountLive == InitMount /\ [][MntNext]_vars /\ MntFair

\* ------------------------------------------- a mounted backend and its readers
\* After Mount has set the presentation up: tmpfs has rendered every
\* effective file and is at its select, fifo has created a FIFO and started
\* a serve goroutine for each and is at its select, fuse serves and has no
\* state of its own.
Mounted ==
  /\ backend \in Backends
  /\ reconfigCh = 0
  /\ signal = "none"
  /\ disk = [n \in Names |-> IF backend = "tmpfs" THEN Want(effective, n) ELSE NoFile]
  /\ rendered = IF backend = "tmpfs" THEN DOMAIN effective ELSE {}
  /\ todo = {}
  /\ fifos = IF backend = "fifo" THEN DOMAIN effective ELSE {}
  /\ handle = NoHandle
  /\ served = NoServe
  /\ mpc = IF backend = "fuse" THEN "serving" ELSE "select"
  /\ ctxDone = FALSE
  /\ mret = "none"
  /\ mounted = (backend = "tmpfs")
  /\ toScrub = {}
  /\ departed = {}
  /\ scrubErrs = {}
  /\ rawRemoved = {}
  /\ scrubAt = ""
  /\ cancels = fifos
  /\ tasks = [n \in Names |-> IF n \in fifos THEN 1 ELSE 0]
  /\ lingering = {}
  /\ pipes = fifos
  /\ fifoErrs = {}

BeNext ==
  \/ BeActivate({MntDir})
  \/ BeDeactivate({MntDir})
  \/ BeOnChangeLinks
  \/ BeOnChange
  \/ BeTemplateChanged
  \/ BeReloadSignal
  \/ TmpfsSelectTick
  \/ TmpfsSelectReconfigure
  \/ TmpfsEffectiveFileNames
  \/ TmpfsReconcileRemove
  \/ TmpfsScrubZero
  \/ TmpfsScrubRemove
  \/ TmpfsScrubEnd
  \/ TmpfsRender
  \/ TmpfsRenderEnd
  \/ TmpfsRead
  \/ FifoSelectReconfigure
  \/ FifoEffectiveFiles
  \/ FifoReconcile
  \/ TaskExit
  \/ TaskOpenFails
  \/ FifoOpen
  \/ FifoResolve
  \/ FifoWrite
  \/ FuseOpen
  \/ FuseRead
  \/ FuseRelease
InitBackend ==
  /\ CtxInit /\ RcIdle /\ LockIdle /\ ResIdle /\ Mounted /\ EntIdle /\ DspIdle /\ CtlIdle
  /\ SrvIdle /\ LsnIdle /\ CfgIdle /\ SlkIdle /\ FpIdle /\ LkIdle /\ CvIdle /\ CbIdle /\ RoIdle /\ DmIdle /\ TplIdle /\ SwIdle /\ RdIdle /\ UmIdle
SpecBackend == InitBackend /\ [][BeNext]_vars

\* ------------------------------------------------------------ symlink manager
\* isUnderMount on the destination Readlink returns.
IsUnderMount(dest) == dest \in Names

\* handleConflict: in backup mode the entry is renamed to link + backupExt
\* (replacing an older backup), in any other mode it is an error.
HandleConflictRemoves(fs, link, conflict) ==
  [fs |-> [fs EXCEPT ![link] = NoEnt], err |-> "nil"]
HandleConflict(fs, link, conflict) ==
  IF conflict = "backup"
    THEN [fs |-> [fs EXCEPT ![BackupPath(link)] = fs[link], ![link] = NoEnt],
          err |-> "nil"]
    ELSE [fs |-> fs, err |-> "conflict"]

\* createSymlink(target, link, mountPoint, conflict, backupExt), target being
\* mountPoint/name.
CreateSymlink(fs, name, link, conflict) ==
  LET e == fs[link]
      cleared ==
        IF e.kind = "none" THEN [fs |-> fs, err |-> "nil"]
        ELSE IF e.kind = "dir" THEN [fs |-> fs, err |-> "dir"]
        ELSE IF e.kind = "symlink" /\ IsUnderMount(e.dest)
          THEN [fs |-> [fs EXCEPT ![link] = NoEnt], err |-> "nil"]
        ELSE HandleConflict(fs, link, conflict)
  IN IF cleared.err # "nil" THEN cleared
     ELSE [fs |-> [cleared.fs EXCEPT ![link] = Link(name)], err |-> "nil"]

\* The loop of Setup over cfg.Files, visited in the order given.
RECURSIVE SetupLoop(_, _, _, _, _)
SetupLoop(fs, mg, files, conflict, order) ==
  IF order = <<>> THEN [fs |-> fs, mg |-> mg, err |-> "nil"]
  ELSE LET name == Head(order) IN
    IF files[name] = NoLink
      THEN SetupLoop(fs, mg, files, conflict, Tail(order))
      ELSE LET r == CreateSymlink(fs, name, files[name], conflict) IN
        IF r.err # "nil" THEN [fs |-> r.fs, mg |-> mg, err |-> r.err]
        ELSE SetupLoop(r.fs, [mg EXCEPT ![name] = files[name]], files,
                       conflict, Tail(order))

\* The first loop of ReconcileWithConfig: every managed link whose file is
\* gone, has no link any more or has another one is removed and forgotten.
StaleLinks(mg, files) == {n \in Names : mg[n] # NoLink /\ files[n] # mg[n]}
RemoveStale(fs, mg, files) ==
  [fs |-> [p \in Paths |->
             IF \E n \in StaleLinks(mg, files) : mg[n] = p THEN NoEnt ELSE fs[p]],
   mg |-> [n \in Names |-> IF n \in StaleLinks(mg, files) THEN NoLink ELSE mg[n]]]

\* Its second loop, over newFiles in the order given.
RECURSIVE ReconcileLoop(_, _, _, _, _)
ReconcileLoop(fs, mg, files, conflict, order) ==
  IF order = <<>> THEN [fs |-> fs, mg |-> mg, err |-> "nil"]
  ELSE LET name == Head(order) IN
    IF files[name] = NoLink \/ mg[name] = files[name]
      THEN ReconcileLoop(fs, mg, files, conflict, Tail(order))
      ELSE LET r == CreateSymlink(fs, name, files[name], conflict) IN
        IF r.err # "nil" THEN [fs |-> r.fs, mg |-> mg, err |-> r.err]
        ELSE ReconcileLoop(r.fs, [mg EXCEPT ![name] = files[name]], files,
                           conflict, Tail(order))

Setup(files, conflict, order) ==
  LET r == SetupLoop(fsys, managed, files, conflict, order) IN
  /\ fsys' = r.fs
  /\ managed' = r.mg
  /\ slret' = [op |-> "setup", err |-> r.err, files |-> files,
               conflict |-> conflict]

ReconcileWithConfig(files, conflict, order) ==
  LET s == RemoveStale(fsys, managed, files)
      r == ReconcileLoop(s.fs, s.mg, files, conflict, order) IN
  /\ fsys' = r.fs
  /\ managed' = r.mg
  /\ slret' = [op |-> "reconcile", err |-> r.err, files |-> files,
               conflict |-> conflict]

\* Cleanup removes every managed link and forgets them all.
Cleanup ==
  /\ fsys' = [p \in Paths |->
                IF \E n \in Names : managed[n] = p THEN NoEnt ELSE fsys[p]]
  /\ managed' = [n \in Names |-> NoLink]
  /\ slret' = [NoCallYet EXCEPT !.op = "cleanup"]

SlkSetup ==
  \E files \in FileSets, conflict \in ConflictModes, order \in Orders(Names) :
    Setup(files, conflict, order)
SlkReconcile ==
  \E files \in FileSets, conflict \in ConflictModes, order \in Orders(Names) :
    ReconcileWithConfig(files, conflict, order)

SlkNext ==
  \/ SlkSetup /\ UNCHANGED outsideSlk
  \/ SlkReconcile /\ UNCHANGED outsideSlk
  \/ Cleanup /\ UNCHANGED outsideSlk
InitSymlink ==
  /\ CtxInit /\ RcIdle /\ LockIdle /\ ResIdle /\ BeIdle /\ EntIdle /\ DspIdle /\ CtlIdle
  /\ SrvIdle /\ LsnIdle /\ CfgIdle /\ MntIdle /\ FpIdle /\ LkIdle /\ CvIdle /\ CbIdle /\ RoIdle /\ DmIdle /\ TplIdle /\ SwIdle /\ RdIdle /\ UmIdle
  /\ fsys \in Homes
  /\ NewManager
SpecSymlink == InitSymlink /\ [][SlkNext]_vars

\* ------------------------------------------------------ the fingerprint, computed
FpCompute ==
  /\ ~fpDone
  /\ fpKey' = ComputeCacheKey(fpIn)
  /\ fpDone' = TRUE
  /\ UNCHANGED fpIn

FpNext ==
  FpCompute /\ UNCHANGED outsideFp
InitFingerprint ==
  /\ CtxInit /\ RcIdle /\ LockIdle /\ ResIdle /\ BeIdle /\ EntIdle /\ DspIdle /\ CtlIdle
  /\ SrvIdle /\ LsnIdle /\ CfgIdle /\ MntIdle /\ SlkIdle /\ LkIdle /\ CvIdle /\ CbIdle /\ RoIdle /\ DmIdle /\ TplIdle /\ SwIdle /\ RdIdle /\ UmIdle
  /\ fpIn \in CacheInputs
  /\ fpKey = NoKey
  /\ fpDone = FALSE
SpecFingerprint == InitFingerprint /\ [][FpNext]_vars

\* ------------------------------------------------------------------ lock order
\* The locks: Manager.activateMu and the symlink manager's and the
\* resolver's mutex are sync.Mutex; Manager.mu and SecretCache.mu are
\* sync.RWMutex.
ContextLocks == {"activateMu", "mu"}
CacheLocks == {"cache"}
LockNames == ContextLocks \cup CacheLocks \cup {"refreshing", "symlink"}

Lock(l) == [op |-> "Lock", lock |-> l]
Unlock(l) == [op |-> "Unlock", lock |-> l]
RLock(l) == [op |-> "RLock", lock |-> l]
RUnlock(l) == [op |-> "RUnlock", lock |-> l]

CodePaths ==
  {"Mutate", "MutateNoChange", "Read", "ResolveFresh", "ResolveStale",
   "ResolveMiss", "Refresh", "Reap", "Stats"}

\* The lock operations of each call, in the order the code makes them.
LockOpsNested(path) ==
  IF path = "ResolveMiss"
    THEN <<RLock("mu"), RLock("cache"), RUnlock("cache"), Lock("cache"),
           Unlock("cache"), RUnlock("mu")>>
    ELSE <<Lock("mu"), Lock("activateMu"), Unlock("activateMu"), Unlock("mu")>>
LockOps(path) ==
  CASE path = "Mutate" ->
         \* Activate, Deactivate, RemoveSession with the onChange callback,
         \* which calls symlink.Manager.ReconcileWithConfig
         <<Lock("activateMu"), Lock("mu"), Unlock("mu"),
           Lock("symlink"), Unlock("symlink"), Unlock("activateMu")>>
    [] path = "MutateNoChange" ->
         \* the same calls on their early returns
         <<Lock("activateMu"), Lock("mu"), Unlock("mu"), Unlock("activateMu")>>
    [] path = "Read" ->
         \* Effective, Layers, Activations, Sessions, TrackedPIDs
         <<RLock("mu"), RUnlock("mu")>>
    [] path = "ResolveFresh" ->
         \* lookupFile (Effective), cache.Get
         <<RLock("mu"), RUnlock("mu"), RLock("cache"), RUnlock("cache")>>
    [] path = "ResolveStale" ->
         \* lookupFile, cache.Get, asyncRefresh
         <<RLock("mu"), RUnlock("mu"), RLock("cache"), RUnlock("cache"),
           Lock("refreshing"), Unlock("refreshing")>>
    [] path = "ResolveMiss" ->
         \* lookupFile, cache.Get, renderAndCache (cache.Put)
         <<RLock("mu"), RUnlock("mu"), RLock("cache"), RUnlock("cache"),
           Lock("cache"), Unlock("cache")>>
    [] path = "Refresh" ->
         \* the goroutine of asyncRefresh: cache.Put, then the deferred delete
         <<Lock("cache"), Unlock("cache"), Lock("refreshing"), Unlock("refreshing")>>
    [] path = "Reap" ->
         \* reaper, Clear, ClearKey, SwapCipher
         <<Lock("cache"), Unlock("cache")>>
    [] path = "Stats" ->
         \* Stats, CipherName
         <<RLock("cache"), RUnlock("cache")>>
    [] OTHER -> <<>>

\* What a goroutine holds after the first n operations of its call.
RECURSIVE HeldAfter(_, _)
HeldAfter(ops, n) ==
  IF n = 0 THEN {}
  ELSE LET o == ops[n]
           before == HeldAfter(ops, n - 1)
       IN CASE o.op = "Lock" -> before \cup {[lock |-> o.lock, mode |-> "w"]}
            [] o.op = "RLock" -> before \cup {[lock |-> o.lock, mode |-> "r"]}
            [] o.op = "Unlock" -> before \ {[lock |-> o.lock, mode |-> "w"]}
            [] o.op = "RUnlock" -> before \ {[lock |-> o.lock, mode |-> "r"]}
Held(t) == HeldAfter(LockOps(lkpos[t].path), lkpos[t].done)
HeldLocks(t) == {h.lock : h \in Held(t)}

\* The operation a goroutine is at: the one it has called and not completed.
Busy(t) == lkpos[t].path # "idle"
NextOp(t) == LockOps(lkpos[t].path)[lkpos[t].done + 1]

\* sync.Mutex and sync.RWMutex: Lock waits for every holder; RLock waits
\* for a writer that holds the lock or has called Lock and waits for it.
CanTake(t) ==
  LET o == NextOp(t) IN
  CASE o.op = "Lock" -> \A u \in Threads \ {t} : o.lock \notin HeldLocks(u)
    [] o.op = "RLock" ->
         \A u \in Threads \ {t} :
           /\ [lock |-> o.lock, mode |-> "w"] \notin Held(u)
           /\ ~(Busy(u) /\ NextOp(u) = Lock(o.lock))
    [] OTHER -> TRUE

\* A goroutine enters one of the calls.
LkCall(t) ==
  /\ ~Busy(t)
  /\ \E path \in CodePaths : lkpos' = [lkpos EXCEPT ![t] = [path |-> path, done |-> 0]]

\* It completes its next lock operation; after the last one the call returns.
LkStep(t) ==
  /\ Busy(t)
  /\ CanTake(t)
  /\ lkpos' = [lkpos EXCEPT ![t] =
                 IF lkpos[t].done + 1 = Len(LockOps(lkpos[t].path))
                   THEN [path |-> "idle", done |-> 0]
                   ELSE [path |-> lkpos[t].path, done |-> lkpos[t].done + 1]]

LkNext ==
  \/ \E t \in Threads : LkCall(t) /\ UNCHANGED outsideLk
  \/ \E t \in Threads : LkStep(t) /\ UNCHANGED outsideLk
SpecLocks == Init /\ [][LkNext]_vars

\* ------------------------------------------- the backends follow the changes
\* renderFile succeeds for name n.
TmpfsRenderOk(n) ==
  /\ TmpfsRender
  /\ todo' = todo \ {n}
  /\ n \in rendered'
  /\ disk'[n] = Want(effective, n)

CvNext ==
  \/ BeActivate({MntDir})
  \/ BeDeactivate({MntDir})
  \/ BeOnChangeLinks
  \/ BeOnChange
  \/ BeTemplateChanged
  \/ BeReloadSignal
  \/ TmpfsSelectTick
  \/ TmpfsSelectReconfigure
  \/ TmpfsEffectiveFileNames
  \/ TmpfsReconcileRemove
  \/ TmpfsScrubZero
  \/ TmpfsScrubRemove
  \/ TmpfsScrubEnd
  \/ TmpfsRender
  \/ TmpfsRenderEnd
  \/ FifoSelectReconfigure
  \/ FifoEffectiveFiles
  \/ FifoReconcile
InitConverge == InitBackend /\ backend \in {"tmpfs", "fifo"}

\* The callback runs to its return; the Mount loop's select takes a ready
\* case, and among several ready cases each is taken in the end; the ticker
\* keeps firing; the loop goes through its scrubs and renders; a render that
\* is tried again and again succeeds in the end.
CvFair ==
  /\ WF_vars(BeOnChangeLinks) /\ WF_vars(BeOnChange)
  /\ SF_vars(TmpfsSelectReconfigure)
  /\ SF_vars(TmpfsSelectTick)
  /\ WF_vars(TmpfsScrubZero) /\ WF_vars(TmpfsScrubRemove) /\ WF_vars(TmpfsScrubEnd)
  /\ WF_vars(TmpfsRender) /\ WF_vars(TmpfsRenderEnd)
  /\ WF_vars(TmpfsEffectiveFileNames) /\ WF_vars(TmpfsReconcileRemove)
  /\ WF_vars(FifoSelectReconfigure)
  /\ WF_vars(FifoEffectiveFiles) /\ WF_vars(FifoReconcile)
  /\ \A n \in Names : SF_vars(TmpfsRenderOk(n))
SpecConverge == InitConverge /\ [][CvNext]_vars /\ CvFair

\* Unmount called beside a Mount that is at its loop, which the onChange
\* callback signals.
UnmountNext ==
  \/ BeActivate({MntDir})
  \/ BeDeactivate({MntDir})
  \/ BeOnChangeLinks
  \/ BeOnChange
  \/ TmpfsSelectTick
  \/ TmpfsSelectReconfigure
  \/ TmpfsEffectiveFileNames
  \/ TmpfsReconcileRemove
  \/ TmpfsScrubZero
  \/ TmpfsScrubRemove
  \/ TmpfsScrubEnd
  \/ TmpfsRender
  \/ TmpfsRenderEnd
  \/ FifoSelectReconfigure
  \/ FifoEffectiveFiles
  \/ FifoReconcile
  \/ FifoUnmount
  \/ UnmountCall
  \/ UnmountScrubZero
  \/ UnmountScrubRemove
  \/ UnmountRelease
SpecUnmount == InitConverge /\ [][UnmountNext]_vars

\* ------------------------------------------------- the callbacks, in order
\* The positions at which a goroutine holds activateMu: from
\* m.activateMu.Lock() to the deferred Unlock that runs when the call
\* returns.
cbRest == <<rcVars, lockVars, resVars, beVars, entVars, dspVars, ctlVars, restCb>>

ActivateMuHeldToUnlock(pc) == pc \in {"locked"}
ActivateMuHeld(pc) == pc \in {"locked", "unlocked", "callback"}

\* m.activateMu.Lock()
CbLock(t) ==
  /\ cbpc[t] = "idle"
  /\ commits < MaxCommits
  /\ \A u \in Mutators : ~ActivateMuHeld(cbpc[u])
  /\ cbpc' = [cbpc EXCEPT ![t] = "locked"]
  /\ UNCHANGED <<ctxVars, cbRest, marg, commits, applied, running>>

\* m.mu.Lock() to m.mu.Unlock(): the call changes the maps, and on the
\* paths that do not return early it stores the recomputed set and keeps it
\* for the callback.
CbCommit(t) ==
  /\ cbpc[t] = "locked"
  /\ \/ \E dir \in Dirs, env \in Envs, pid \in 0..MaxPid, files \in SUBSET Names :
          Activate(dir, env, pid, files)
     \/ \E dir \in Dirs, pid \in 0..MaxPid : Deactivate(dir, pid)
     \/ \E pid \in Pids : RemoveSession(pid)
  /\ IF last'.err = "nil"
       THEN /\ commits' = commits + 1
            /\ marg' = [marg EXCEPT ![t] = [ver |-> commits + 1, eff |-> effective']]
       ELSE UNCHANGED <<commits, marg>>
  /\ cbpc' = [cbpc EXCEPT ![t] = "unlocked"]
  /\ UNCHANGED <<cbRest, applied, running>>

\* m.onChange(effective) is entered: the symlink reconcile and the
\* backend's Reconfigure are driven with the map of this call.
CbEnter(t) ==
  /\ cbpc[t] = "unlocked"
  /\ marg[t] # NoArg
  /\ applied' = marg[t]
  /\ running' = running \cup {t}
  /\ cbpc' = [cbpc EXCEPT ![t] = "callback"]
  /\ UNCHANGED <<ctxVars, cbRest, marg, commits>>

\* The call returns, after the callback or on an early return.
CbReturn(t) ==
  /\ \/ cbpc[t] = "callback"
     \/ cbpc[t] = "unlocked" /\ marg[t] = NoArg
  /\ running' = running \ {t}
  /\ marg' = [marg EXCEPT ![t] = NoArg]
  /\ cbpc' = [cbpc EXCEPT ![t] = "idle"]
  /\ UNCHANGED <<ctxVars, cbRest, commits, applied>>

CbNext ==
  \/ \E t \in Mutators : CbLock(t)
  \/ \E t \in Mutators : CbCommit(t)
  \/ \E t \in Mutators : CbEnter(t)
  \/ \E t \in Mutators : CbReturn(t)
SpecCallbacks == Init /\ [][CbNext]_vars

\* ------------------------------------------- the reloads and their callbacks
roRest == <<coreVars, srvVars, lsnVars, mntVars, slkVars, fpVars, lkVars, cvVars, cbVars, dmVars,
            tplVars, swVars, rdVars, umVars>>

RoWrite == CfgWrite /\ UNCHANGED <<roRest, roVars>>

\* The debounce timer's goroutine, or the goroutine the signal handler
\* starts for SIGHUP, enters reload.
RoBegin(r) ==
  /\ cfgSeq < MaxReloads
  /\ ReloadBegin(r)
  /\ UNCHANGED <<roRest, roVars>>

RoLoad(r) == ReloadLoad(r) /\ UNCHANGED <<roRest, roVars>>

\* The commit under cw.mu, numbered.
RoCommit(r) ==
  /\ ReloadCommit(r)
  /\ IF reloads'[r].pc = "callback"
       THEN /\ cfgSeq' = cfgSeq + 1
            /\ mine' = [mine EXCEPT ![r] = cfgSeq + 1]
       ELSE UNCHANGED <<cfgSeq, mine>>
  /\ UNCHANGED <<roRest, held, hookpos, dispatched>>

\* Dispatch, the prologue loop: the next hook stores the new config of this
\* reload in the resolver, in the backend or in currentCfg.
HookAt(i) == Hooks[i]
RoHook(r) ==
  /\ reloads[r].pc = "callback"
  /\ hookpos[r] < Len(Hooks)
  /\ held' = [held EXCEPT ![HookAt(hookpos[r] + 1)] = reloads[r].new]
  /\ hookpos' = [hookpos EXCEPT ![r] = @ + 1]
  /\ dispatched' = IF hookpos[r] = 0 THEN Append(dispatched, mine[r]) ELSE dispatched
  /\ UNCHANGED <<roRest, cfgVars, cfgSeq, mine>>

\* Dispatch, the rules, and the return of reload.
RoRules(r) ==
  /\ hookpos[r] = Len(Hooks)
  /\ ReloadCallback(r)
  /\ hookpos' = [hookpos EXCEPT ![r] = 0]
  /\ mine' = [mine EXCEPT ![r] = 0]
  /\ UNCHANGED <<roRest, held, cfgSeq, dispatched>>

RoNext ==
  \/ RoWrite
  \/ \E r \in Reloaders : RoBegin(r)
  \/ \E r \in Reloaders : RoLoad(r)
  \/ \E r \in Reloaders : RoCommit(r)
  \/ \E r \in Reloaders : RoHook(r)
  \/ \E r \in Reloaders : RoRules(r)
SpecReloadOrder == Init /\ [][RoNext]_vars

\* ------------------------------------------------------ the daemon's symlinks
dmRest == <<rcVars, lockVars, resVars, beVars, entVars, dspVars, ctlVars,
            srvVars, lsnVars, cfgVars, mntVars, fpVars, lkVars, cvVars, cbVars, roVars,
            tplVars, swVars, rdVars, umVars>>

\* A symlink to mountPoint/name, for the mount point mp: the entry records
\* the mount point in its data field.
LinkInto(mp, name) == [kind |-> "symlink", dest |-> name, data |-> mp]

\* isUnderMount(dest, mountPoint) on what Readlink returns for the entry.
IsUnderMountPoint(e, mp) == e.dest \in Names /\ e.data = mp

\* createSymlink(target, link, mountPoint, conflict, backupExt) with target
\* mountPoint/name: a symlink into another mount point is a foreign one.
CreateSymlinkAt(fs, name, link, conflict, mp) ==
  LET e == fs[link]
      cleared ==
        IF e.kind = "none" THEN [fs |-> fs, err |-> "nil"]
        ELSE IF e.kind = "dir" THEN [fs |-> fs, err |-> "dir"]
        ELSE IF e.kind = "symlink" /\ IsUnderMountPoint(e, mp)
          THEN [fs |-> [fs EXCEPT ![link] = NoEnt], err |-> "nil"]
        ELSE HandleConflict(fs, link, conflict)
  IN IF cleared.err # "nil" THEN cleared
     ELSE [fs |-> [cleared.fs EXCEPT ![link] = LinkInto(mp, name)], err |-> "nil"]

\* The loop of Setup over cfg.Files.
RECURSIVE SetupLoopAt(_, _, _, _, _, _)
SetupLoopAt(fs, mg, files, conflict, order, mp) ==
  IF order = <<>> THEN [fs |-> fs, mg |-> mg, err |-> "nil"]
  ELSE LET name == Head(order) IN
    IF files[name] = NoLink
      THEN SetupLoopAt(fs, mg, files, conflict, Tail(order), mp)
      ELSE LET r == CreateSymlinkAt(fs, name, files[name], conflict, mp) IN
        IF r.err # "nil" THEN [fs |-> r.fs, mg |-> mg, err |-> r.err]
        ELSE SetupLoopAt(r.fs, [mg EXCEPT ![name] = files[name]], files,
                         conflict, Tail(order), mp)

\* The second loop of ReconcileWithConfig.
RECURSIVE ReconcileLoopAt(_, _, _, _, _, _)
ReconcileLoopAt(fs, mg, files, conflict, order, mp) ==
  IF order = <<>> THEN [fs |-> fs, mg |-> mg, err |-> "nil"]
  ELSE LET name == Head(order) IN
    IF files[name] = NoLink \/ mg[name] = files[name]
      THEN ReconcileLoopAt(fs, mg, files, conflict, Tail(order), mp)
      ELSE LET r == CreateSymlinkAt(fs, name, files[name], conflict, mp) IN
        IF r.err # "nil" THEN [fs |-> r.fs, mg |-> mg, err |-> r.err]
        ELSE ReconcileLoopAt(r.fs, [mg EXCEPT ![name] = files[name]], files,
                             conflict, Tail(order), mp)

\* Setup(cfg, mountPoint) and ReconcileWithConfig(newFiles, mountPoint, ...).
SetupAt(files, conflict, order, mp) ==
  LET r == SetupLoopAt(fsys, managed, files, conflict, order, mp) IN
  /\ fsys' = r.fs
  /\ managed' = r.mg
  /\ slret' = [op |-> "setup", err |-> r.err, files |-> files, conflict |-> conflict]

ReconcileAt(files, conflict, order, mp) ==
  LET s == RemoveStale(fsys, managed, files)
      r == ReconcileLoopAt(s.fs, s.mg, files, conflict, order, mp) IN
  /\ fsys' = r.fs
  /\ managed' = r.mg
  /\ slret' = [op |-> "reconcile", err |-> r.err, files |-> files, conflict |-> conflict]

\* The daemon is up: symlinkMgr.Setup(cfg, mountPoint) has made the links
\* of the global config in an empty home and the mount loop has started.
DmUp ==
  /\ fsys = [p \in Paths |-> IF p = SymlinkOf("netrc") THEN LinkInto(1, "netrc") ELSE NoEnt]
  /\ managed = LinksOf(GlobalFiles)
  /\ slret = [op |-> "setup", err |-> "nil", files |-> LinksOf(GlobalFiles),
              conflict |-> "error"]
  /\ currentCfg = DmCfg0
  /\ cwCurrent = DmCfg0
  /\ cwSeq = 0
  /\ loop = "mounted"
  /\ loopCfg = DmCfg0
  /\ restartCh = 0
  /\ sigpc = "none"
  /\ cbArg = NoCb
  /\ reloading = [r \in Reloaders |-> DmNoReload]

\* The process runs until runForeground returns.
DaemonRuns == loop # "exited"

\* A control-socket request or the reaper changes the activations: the
\* call up to m.mu.Unlock().  The control server and the reaper stop taking
\* new work at ctlCancel().  The call holds activateMu until its callback
\* has returned.
DmMutate ==
  /\ DaemonRuns /\ sigpc # "done"
  /\ cbArg = NoCb
  /\ \/ \E dir \in {MntDir}, pid \in {1} :
          Activate(dir, [k \in {"TOKEN", "HOME"} |-> "t1"], pid, DmProjectFiles)
     \/ \E dir \in {MntDir}, pid \in 0..1 : Deactivate(dir, pid)
     \/ RemoveSession(1)
  /\ cbArg' = IF last'.err = "nil"
                THEN [NoCb EXCEPT !.pc = "load", !.eff = effective']
                ELSE NoCb
  /\ UNCHANGED <<dmRest, slkVars, currentCfg, cwCurrent, cwSeq, loop, loopCfg, restartCh, sigpc,
                 reloading>>

\* What a Reconfigure call leaves alone.
dmBeRest == <<rcVars, lockVars, resVars, entVars, dspVars, ctlVars, backend, disk,
              rendered, todo, fifos, handle, served, srvVars, lsnVars, cfgVars,
              mntVars, fpVars, lkVars, cvVars, cbVars, roVars, tplVars, swVars,
              rdVars, umVars>>

\* The backend of the daemon takes a Reconfigure call: the non-blocking
\* send on its reconfigCh.
DmReconfigure ==
  /\ reconfigCh' = Reconfigure(reconfigCh).len
  /\ signal' = Reconfigure(reconfigCh).how
  /\ UNCHANGED dmBeRest

\* The variable backend is written by the restart (NewBackend) and read by
\* the callback and by rule 2 without synchronisation.  A read that follows
\* a ReconcileWithConfig which ran after the restart's Setup is ordered
\* after the write by the symlink manager's mutex and sees the new backend;
\* a read that follows the write without that order may see either backend,
\* and a send to the channel of the old backend is read by nothing.  The
\* call that has reconciled and not yet read is marked (old) when the write
\* happens, the call that reconciles between the write and Setup when it
\* reconciles.
DmBackendRead(old) ==
  DmReconfigure \/ (old /\ UNCHANGED <<reconfigCh, signal, dmBeRest>>)

\* Where a Dispatch goes after rule 1 or rule 2: rule 5, the kill rule,
\* when the mount point changed, the end else.
AfterCallbacks(rl) ==
  IF rl.mount THEN [DmNoReload EXCEPT !.pc = "kill"] ELSE DmNoReload

\* The onChange callback, first part: latestCfg := currentCfg.Load().
DmOnChangeLoad ==
  /\ DaemonRuns
  /\ cbArg.pc = "load"
  /\ cbArg' = [cbArg EXCEPT !.pc = "links", !.mp = currentCfg.mp]
  /\ UNCHANGED <<ctxVars, dmRest, slkVars, currentCfg, cwCurrent, cwSeq, loop, loopCfg, restartCh,
                 sigpc, reloading>>

\* The onChange callback, second part: ReconcileWithConfig with the files
\* of the effective set it was given and the mount point it loaded.
DmOnChange ==
  /\ DaemonRuns
  /\ cbArg.pc = "links"
  /\ \E order \in Orders(Names) :
       ReconcileAt(LinksOf(DOMAIN cbArg.eff), "error", order, cbArg.mp)
  /\ cbArg' = [cbArg EXCEPT !.pc = "signal", !.eff = NilEffective, !.mp = 1,
                            !.old = (loop = "setup")]
  /\ UNCHANGED <<ctxVars, dmRest, currentCfg, cwCurrent, cwSeq, loop, loopCfg, restartCh, sigpc,
                 reloading>>

\* The onChange callback, third part: backend.Reconfigure(); the mutation
\* returns and activateMu is free again.  When the callback is that of rule
\* 1's UpdateGlobal the Dispatch goes on.
DmOnChangeSignal ==
  /\ DaemonRuns
  /\ cbArg.pc = "signal"
  /\ DmBackendRead(cbArg.old)
  /\ cbArg' = NoCb
  /\ reloading' = IF cbArg.by \in Reloaders
                    THEN [reloading EXCEPT ![cbArg.by] = AfterCallbacks(@)]
                    ELSE reloading
  /\ UNCHANGED <<ctxVars, slkVars, currentCfg, cwCurrent, cwSeq, loop, loopCfg, restartCh, sigpc>>

\* Manager.UpdateGlobal(cfg, configNames) for the files of cfg: the global
\* layer is swapped and the effective set recomputed.  The onChange
\* callback is due when the effective set has changed.
UpdateGlobal(files) ==
  /\ global' = files
  /\ effective' = Recompute(activations, files)
  /\ last' = [had |-> {}, op |-> "UpdateGlobal", err |-> "nil", auto |-> "none"]
  /\ UNCHANGED <<activations, pidToDirs>>

\* ConfigWatcher.reload, under cw.mu: the config read from the file differs
\* from cw.current, the diff is taken and cw.current replaced.  onReload is
\* called after cw.mu is released, and the reloads of the debounce timer
\* and of SIGHUP run in goroutines of their own, so that the Dispatch calls
\* overlap.  The goroutines are interchangeable: the one with the lowest
\* free number is taken.
DmReload(r) ==
  /\ DaemonRuns
  /\ reloading[r].pc = "idle"
  /\ cwSeq < MaxDmReloads
  /\ cwSeq' = cwSeq + 1
  /\ \A q \in Reloaders : q < r => reloading[q].pc # "idle"
  /\ \E cfg \in DmCfgs \ {cwCurrent} :
       /\ cwCurrent' = cfg
       /\ reloading' = [reloading EXCEPT ![r] =
            [DmNoReload EXCEPT !.pc = "store", !.new = cfg,
                             !.files = (cfg.files # cwCurrent.files),
                             !.mount = (cfg.mp # cwCurrent.mp)]]
  /\ UNCHANGED <<ctxVars, dmRest, slkVars, currentCfg, loop, loopCfg, restartCh, sigpc, cbArg>>

\* Dispatch, the prologues: currentCfg.Store(new).  Rule 1 matches when the
\* files changed, rule 2 when they did not.
DmReloadStore(r) ==
  /\ DaemonRuns
  /\ reloading[r].pc = "store"
  /\ currentCfg' = reloading[r].new
  /\ reloading' = [reloading EXCEPT ![r].pc = IF reloading[r].files THEN "global" ELSE "load"]
  /\ UNCHANGED <<ctxVars, dmRest, slkVars, cwCurrent, cwSeq, loop, loopCfg, restartCh, sigpc, cbArg>>

\* Rule 1: ctxMgr.UpdateGlobal(new, names), up to m.mu.Unlock().  It is a
\* writer of the context manager and waits for activateMu.  When the
\* effective set has changed the callback runs before the Dispatch goes on.
DmUpdateGlobal(r) ==
  /\ DaemonRuns
  /\ reloading[r].pc = "global"
  /\ cbArg = NoCb
  /\ UpdateGlobal(reloading[r].new.files)
  /\ IF effective' # effective
       THEN /\ cbArg' = [NoCb EXCEPT !.pc = "load", !.eff = effective', !.by = r]
            /\ reloading' = [reloading EXCEPT ![r].pc = "callback", ![r].new = DmCfg0]
       ELSE /\ cbArg' = NoCb
            /\ reloading' = [reloading EXCEPT ![r] = AfterCallbacks(@)]
  /\ UNCHANGED <<dmRest, slkVars, currentCfg, cwCurrent, cwSeq, loop, loopCfg, restartCh, sigpc>>

\* Rule 2, first part: latestCfg := currentCfg.Load().
DmReloadLoad(r) ==
  /\ DaemonRuns
  /\ reloading[r].pc = "load"
  /\ reloading' = [reloading EXCEPT ![r].pc = "files", ![r].new = DmCfg0,
                                    ![r].mp = currentCfg.mp]
  /\ UNCHANGED <<ctxVars, dmRest, slkVars, currentCfg, cwCurrent, cwSeq, loop, loopCfg, restartCh,
                 sigpc, cbArg>>

\* Rule 2, second part: files := ctxMgr.EffectiveFileConfigs(), under the
\* read lock of the context manager.
DmReloadFiles(r) ==
  /\ DaemonRuns
  /\ reloading[r].pc = "files"
  /\ reloading' = [reloading EXCEPT ![r].pc = "links", ![r].eff = DOMAIN effective]
  /\ UNCHANGED <<ctxVars, dmRest, slkVars, currentCfg, cwCurrent, cwSeq, loop, loopCfg, restartCh,
                 sigpc, cbArg>>

\* Rule 2, third part: ReconcileWithConfig with the files read and the
\* mount point loaded.
DmReloadLinks(r) ==
  /\ DaemonRuns
  /\ reloading[r].pc = "links"
  /\ \E order \in Orders(Names) :
       ReconcileAt(LinksOf(reloading[r].eff), "error", order, reloading[r].mp)
  /\ reloading' = [reloading EXCEPT ![r].pc = "signal", ![r].eff = {}, ![r].mp = 1,
                                    ![r].old = (loop = "setup")]
  /\ UNCHANGED <<ctxVars, dmRest, currentCfg, cwCurrent, cwSeq, loop, loopCfg, restartCh, sigpc,
                 cbArg>>

\* Rule 2, fourth part: backend.Reconfigure().
DmReloadSignal(r) ==
  /\ DaemonRuns
  /\ reloading[r].pc = "signal"
  /\ DmBackendRead(reloading[r].old)
  /\ reloading' = [reloading EXCEPT ![r] = AfterCallbacks(@)]
  /\ UNCHANGED <<ctxVars, slkVars, currentCfg, cwCurrent, cwSeq, loop, loopCfg, restartCh, sigpc,
                 cbArg>>

\* Rule 5, the kill rule: the non-blocking send on restartCh, which has
\* room for one signal.
DmReloadKill(r) ==
  /\ DaemonRuns
  /\ reloading[r].pc = "kill"
  /\ restartCh' = 1
  /\ reloading' = [reloading EXCEPT ![r] = DmNoReload]
  /\ UNCHANGED <<ctxVars, dmRest, slkVars, currentCfg, cwCurrent, cwSeq, loop, loopCfg, sigpc,
                 cbArg>>

\* The mount loop takes the restart signal: when the root context is
\* cancelled it returns, else it cancels the mount context.
DmRestart ==
  /\ loop = "mounted" /\ restartCh = 1
  /\ restartCh' = 0
  /\ loop' = IF sigpc = "done" THEN "exited" ELSE "stopping"
  /\ UNCHANGED <<ctxVars, dmRest, slkVars, currentCfg, cwCurrent, cwSeq, loopCfg, sigpc, cbArg,
                 reloading>>

\* The old backend's Mount has returned (<-mountDone): newCfg :=
\* currentCfg.Load().
DmRestartLoad ==
  /\ loop = "stopping"
  /\ loopCfg' = currentCfg
  /\ loop' = "cleanup"
  /\ UNCHANGED <<ctxVars, dmRest, slkVars, currentCfg, cwCurrent, cwSeq, restartCh, sigpc, cbArg,
                 reloading>>

\* symlinkMgr.Cleanup() of the restart.
DmRestartCleanup ==
  /\ loop = "cleanup"
  /\ Cleanup
  /\ loop' = "backend"
  /\ UNCHANGED <<ctxVars, dmRest, currentCfg, cwCurrent, cwSeq, loopCfg, restartCh, sigpc, cbArg,
                 reloading>>

\* backend = mount.NewBackend(newCfg, ...): the new backend has a
\* reconfigCh of its own, which is empty.
DmNewBackend ==
  /\ loop = "backend"
  /\ reconfigCh' = 0
  /\ signal' = "none"
  /\ loop' = "setup"
  /\ cbArg' = [cbArg EXCEPT !.old = (cbArg.pc = "signal")]
  /\ reloading' = [r \in Reloaders |->
                     [reloading[r] EXCEPT !.old = (reloading[r].pc = "signal")]]
  /\ UNCHANGED <<ctxVars, dmBeRest, slkVars, currentCfg, cwCurrent, cwSeq, loopCfg, restartCh, sigpc>>

\* symlinkMgr.Setup(newCfg, newCfg's mount point), over newCfg.Files; the
\* loop goes round and mounts the new backend.
DmRestartSetup ==
  /\ loop = "setup"
  /\ \E order \in Orders(Names) :
       SetupAt(LinksOf(loopCfg.files), "error", order, loopCfg.mp)
  /\ loop' = IF slret'.err = "nil" THEN "mounted" ELSE "exited"
  /\ UNCHANGED <<ctxVars, dmRest, currentCfg, cwCurrent, cwSeq, loopCfg, restartCh, sigpc, cbArg,
                 reloading>>

\* SIGINT or SIGTERM: the handler calls symlinkMgr.Cleanup(),
DmSignal ==
  /\ DaemonRuns /\ sigpc = "none"
  /\ Cleanup
  /\ sigpc' = "cleaned"
  /\ UNCHANGED <<ctxVars, dmRest, currentCfg, cwCurrent, cwSeq, loop, loopCfg, restartCh, cbArg,
                 reloading>>

\* then ctlCancel() and cancel().
DmCancel ==
  /\ DaemonRuns /\ sigpc = "cleaned"
  /\ sigpc' = "done"
  /\ UNCHANGED <<ctxVars, dmRest, slkVars, currentCfg, cwCurrent, cwSeq, loop, loopCfg, restartCh,
                 cbArg, reloading>>

\* backend.Mount returns on the cancelled context and runForeground returns.
DmExit ==
  /\ loop = "mounted" /\ sigpc = "done"
  /\ loop' = "exited"
  /\ UNCHANGED <<ctxVars, dmRest, slkVars, currentCfg, cwCurrent, cwSeq, loopCfg, restartCh, sigpc,
                 cbArg, reloading>>

\* No reload is between its commit and the end of its Dispatch.
NoReloading == \A r \in Reloaders : reloading[r].pc = "idle"

DmNext ==
  \/ DmMutate
  \/ DmOnChangeLoad
  \/ DmOnChange
  \/ DmOnChangeSignal
  \/ \E r \in Reloaders : DmReload(r)
  \/ \E r \in Reloaders : DmReloadStore(r)
  \/ \E r \in Reloaders : DmUpdateGlobal(r)
  \/ \E r \in Reloaders : DmReloadLoad(r)
  \/ \E r \in Reloaders : DmReloadFiles(r)
  \/ \E r \in Reloaders : DmReloadLinks(r)
  \/ \E r \in Reloaders : DmReloadSignal(r)
  \/ \E r \in Reloaders : DmReloadKill(r)
  \/ DmRestart
  \/ DmRestartLoad
  \/ DmRestartCleanup
  \/ DmNewBackend
  \/ DmRestartSetup
  \/ DmSignal
  \/ DmCancel
  \/ DmExit
InitDaemon ==
  /\ CtxInit /\ RcIdle /\ LockIdle /\ ResIdle /\ BeIdle /\ EntIdle /\ DspIdle /\ CtlIdle
  /\ SrvIdle /\ LsnIdle /\ CfgIdle /\ MntIdle /\ FpIdle /\ LkIdle /\ CvIdle /\ CbIdle /\ RoIdle /\ TplIdle /\ SwIdle /\ RdIdle /\ UmIdle
  /\ DmUp
SpecDaemon == InitDaemon /\ [][DmNext]_vars

\* ---------------------------------------------------------------- claims

\* C1 (as claimed): an Activate that returns a conflict error leaves
\* activations (with every session set), effective and pidToDirs as they
\* were before the call.
C1_ConflictLeavesStateUnchanged ==
  [][(last'.op = "Activate" /\ last'.err = "conflict")
       => UNCHANGED <<activations, effective, pidToDirs>>]_vars

\* C2: after a successful Activate(dirB, env, pid) with pid > 0, pid is in
\* the session set of no other directory; another activation whose sessions
\* were exactly {pid} is gone, and one that had further sessions stays with
\* exactly those.
C2_AutoDeactivation ==
  [][\A dir \in Dirs, pid \in Pids, env \in Envs, files \in SUBSET Names :
       (Activate(dir, env, pid, files) /\ last'.err = "nil") =>
         /\ activations'[dir] # NoAct
         /\ pid \in activations'[dir].sessions
         /\ \A d \in Dirs \ {dir} :
              /\ activations'[d] # NoAct => pid \notin activations'[d].sessions
              /\ (activations[d] # NoAct /\ activations[d].sessions = {pid})
                   => activations'[d] = NoAct
              /\ (activations[d] # NoAct /\ activations[d].sessions \ {pid} # {})
                   => /\ activations'[d] # NoAct
                      /\ activations'[d].sessions = activations[d].sessions \ {pid}
    ]_vars

\* C2's case: a successful Activate took the pid out of another activation
\* that other sessions keep alive.
C2_Witness ==
  /\ last.op = "Activate" /\ last.err = "nil" /\ last.auto = "kept"
  /\ Cardinality(ActiveDirs(activations)) >= 2

\* C3: after N distinct pids have activated RcDir and k of them have each
\* deactivated it once, RcDir is active iff k < N, and while active its
\* session set is the N-k pids that have not deactivated.
C3_SessionRefCount ==
  /\ (activations[RcDir] # NoAct) <=> (Cardinality(left) < Cardinality(joined))
  /\ activations[RcDir] # NoAct => activations[RcDir].sessions = joined \ left

\* C3's case: at least two sessions joined and one of them has left.
C3_Witness ==
  /\ Cardinality(joined) >= 2
  /\ Cardinality(left) = 1
  /\ last.op = "Deactivate"

\* C4 (as claimed): each name is overridden by at most one activation; an
\* Activate that would give a name a second owner fails and leaves the state
\* unchanged, also when the name is a global file; a single activation that
\* overrides a global file succeeds.
C4_OneOwnerOrUnchanged ==
  /\ [](\A d1, d2 \in ActiveDirs(activations) :
          d1 # d2 => activations[d1].overrides \cap activations[d2].overrides = {})
  /\ [][\A dir \in Dirs, pid \in 0..MaxPid, env \in Envs, files \in SUBSET Names :
          Activate(dir, env, pid, files) =>
            LET t == AutoDeactivate(
                       Install(activations, pidToDirs, dir, env, pid, files).acts,
                       Install(activations, pidToDirs, dir, env, pid, files).p2d,
                       dir, pid).acts
                second == \E d \in ActiveDirs(t) \ {dir} : t[d].overrides \cap files # {}
            IN /\ second => /\ last'.err = "conflict"
                            /\ UNCHANGED <<activations, effective, pidToDirs>>
               /\ ~second => last'.err = "nil"
       ]_vars

\* C5: a reader that holds the result of Effective, Activations or Sessions
\* holds the maps as the last completed mutation left them (the state before
\* or after any mutation, never one in between), and never sees the
\* tentative state of a conflicting Activate, in which a name has two owners.
C5_ReadersSeeCommitted ==
  \A r \in Readers :
    rpc[r] = "read" =>
      /\ seen[r] = Project(seen[r].kind, committed[1], committed[2])
      /\ seen[r].kind = "Activations" =>
           \A d1, d2 \in DOMAIN seen[r].val :
             d1 # d2 => seen[r].val[d1].overrides \cap seen[r].val[d2].overrides = {}

\* A reader has its result right after a conflicting Activate has rolled back
\* and released mu, the writer still being inside the call.
C5_Witness ==
  \E r \in Readers :
    /\ rpc[r] = "read"
    /\ seen[r].kind = "Activations"
    /\ DOMAIN seen[r].val # {}
    /\ wpc = "unlocked"
    /\ call.op = "Activate"
    /\ call.err = "conflict"
\* C6 (as claimed): a Resolve that took the stale path has returned the
\* plaintext of the stale entry it found, from the cache and not from a
\* render of its own; at every moment at most one refresh goroutine runs
\* for each file name.
C6_StaleServedOneRefresh ==
  /\ \A r \in Resolvers :
       rs[r].pc = "done" /\ rs[r].path = "stale" =>
         /\ rs[r].res.src = "cache"
         /\ rs[r].res.ok
         /\ rs[r].res.val = rs[r].got.pt
  /\ \A n \in Names : inflight[n] <= 1

\* C6, amended: a Resolve that took the stale path returns what Decrypt
\* gives for the entry it holds, without a render of its own: the plaintext
\* of the stale entry when the entry is as it was found and the cipher is
\* the one that encrypted it, the decryption error when the buffer was
\* zeroed by SwapCipher, Clear, ClearKey or the reaper or the cipher was
\* replaced since the entry was found.  At every moment at most one
\* refresh goroutine runs for each file name.
C6_StaleServedUnlessZeroed ==
  /\ [](\A n \in Names : inflight[n] <= 1)
  /\ [][\A r \in Resolvers :
          (rs[r].pc = "decrypt" /\ rs[r].path = "stale" /\ rs'[r].pc = "done") =>
            /\ rs'[r].res.src = "cache"
            /\ IF rs[r].entry = rs[r].got /\ rs[r].got.key = cipher
                 THEN rs'[r].res.ok /\ rs'[r].res.val = rs[r].got.pt
                 ELSE ~rs'[r].res.ok /\ rs'[r].res.err = "decrypt"]_vars

\* Two concurrent Resolve calls hit the same stale entry: one has returned
\* the stale plaintext, the other is about to decrypt, and one refresh
\* runs.
C6_Witness ==
  \E r1, r2 \in Resolvers :
    /\ r1 # r2
    /\ rs[r1].name = rs[r2].name
    /\ rs[r1].key = rs[r2].key
    /\ rs[r1].pc = "done" /\ rs[r1].path = "stale"
    /\ rs[r1].res.ok /\ rs[r1].res.val = rs[r1].got.pt
    /\ rs[r2].pc = "decrypt" /\ rs[r2].path = "stale"
    /\ inflight[rs[r1].name] = 1

\* C7: while a swap holds the lock after clearing, the cache is empty, and
\* once no swap is in progress every entry in the cache was encrypted by the
\* current cipher: none encrypted under a replaced cipher is present.
C7_NoEntryUnderReplacedCipher ==
  /\ swapPc = "cleared" => entries = NoEntries
  /\ swapPc = "idle" =>
       \A k \in DOMAIN entries : entries[k].ct.key = cipher

\* C8: when SwapCipher returns, Get finds no entry for any key, and the
\* ciphertext that callers obtained before the swap, the buffer they hold
\* as well as a copy of its bytes, does not decrypt with the new cipher.
C8_SwapWipes ==
  [][(swapPc = "cleared" /\ swapPc' = "idle") =>
       /\ entries' = NoEntries
       /\ \A r \in Resolvers :
            rs'[r].pc \in {"asyncRefresh", "decrypt"} =>
              /\ ~CipherDecrypt(cipher', rs'[r].entry).ok
              /\ ~CipherDecrypt(cipher', rs'[r].got).ok]_vars

\* C9 as claimed: no Resolve ends in an error that comes from the cache,
\* be it an encryption failure or a decryption failure.
C9_NoCacheFailureFailsResolve ==
  \A r \in Resolvers :
    rs[r].pc = "done" => rs[r].res.err \notin {"encrypt", "decrypt"}

\* C9 as amended: an encryption failure on Put never makes Resolve return an
\* error, the rendered content is returned; the only cache failure Resolve
\* returns is the decryption failure on a cache hit.
C9_EncryptFailureIsNotFatal ==
  \A r \in Resolvers :
    rs[r].pc = "done" =>
      /\ rs[r].encFailed => rs[r].res.ok /\ rs[r].res.val = rs[r].content
      /\ rs[r].res.err # "encrypt"
      /\ rs[r].res.err = "decrypt" => rs[r].path \in {"fresh", "stale"}

\* A Resolve whose Put failed to encrypt has returned the content.
C9_Witness ==
  \E r \in Resolvers :
    rs[r].pc = "done" /\ rs[r].encFailed /\ rs[r].res.ok /\ rs[r].path = "miss"
\* C10: what a backend serves for a file at read time is what the
\* effective set gives for the file, as that set stood at the most recent
\* reconcile signal or as it stands at the read: the file is in the set and
\* the content is rendered from the FileConfig and env it has there.
C10_ServedFromCurrentSet ==
  served # NoServe =>
    served.content \in {Want(atSignal, served.name), Want(effective, served.name)}

\* C11: Reconfigure never blocks its caller, and the channel never holds
\* more than one signal: a call made while a signal is pending takes the
\* default case and leaves the one pending signal as it is, whichever of
\* the callers makes it: the onChange callback, the callback of the
\* template watcher or rule 2 of the reload.
C11_ReconfigureCoalesces ==
  /\ signal # "blocked"
  /\ reconfigCh \in 0..1
  /\ signal = "collapsed" => reconfigCh = 1
  /\ signal = "sent" => reconfigCh = 1
\* The template watcher or the reload has just issued a Reconfigure that
\* found a signal pending, while the onChange callback of a mutation is
\* about to issue its own.
C11_Witness ==
  /\ signal = "collapsed" /\ reconfigCh = 1 /\ backend = "fifo"
  /\ cbDue = "signal"

\* C12: a sweep whose probe reports every pid dead, and between whose
\* steps no other call changes the manager, leaves no pid tracked and
\* removes every activation that had sessions, their set having become
\* empty; an activation made without a session is not touched.
C12_SweepRemovesDead ==
  [][(SweepEnd /\ sweep.alldead /\ sweep.alone) =>
       /\ DOMAIN pidToDirs' = {}
       /\ \A d \in Dirs :
            sweep.start[d] # NoAct =>
              IF sweep.start[d].sessions # {}
                THEN activations'[d] = NoAct
                ELSE activations'[d] = sweep.start[d]]_vars
\* A sweep with every pid dead has just returned: it removed an activation
\* and kept one that has no sessions.
C12_Witness ==
  /\ last.op = "Sweep" /\ last.err = "alldead" /\ last.auto = "dropped"
  /\ DOMAIN pidToDirs = {}
  /\ \E d \in Dirs : activations[d] # NoAct

\* C13: the effective set is the global files overlaid with the union of
\* the overrides of the activations in the ledger, whatever the order in
\* which they were made: it is that in every reachable state, and two
\* activations of directories not yet active, with disjoint file names and
\* made without a session or by different sessions, leave the same ledger and
\* the same effective set in either order.
Overlay(A, g) ==
  [n \in g \cup UNION {A[d].overrides : d \in ActiveDirs(A)} |->
     IF \E d \in ActiveDirs(A) : n \in A[d].overrides
       THEN LET d == CHOOSE x \in ActiveDirs(A) : n \in A[x].overrides
            IN [src |-> d, env |-> FilterEnv(FileCfg(n), A[d].env)]
       ELSE [src |-> 0, env |-> FilterEnv(FileCfg(n), GlobalEnv(A))]]
C13_MergeDeterminism ==
  /\ effective = Overlay(activations, global)
  /\ \A d1, d2 \in Dirs \ ActiveDirs(activations), e1, e2 \in Envs,
        p1, p2 \in 0..MaxPid, f1, f2 \in SUBSET Names :
       (d1 # d2 /\ f1 \cap f2 = {} /\ (p1 = 0 \/ p1 # p2)
          /\ ~Conflict([activations EXCEPT ![d1] = [env |-> e1, overrides |-> f1, sessions |-> {}],
                                           ![d2] = [env |-> e2, overrides |-> f2, sessions |-> {}]])) =>
         LET a1 == ActivateMaps(activations, pidToDirs, effective, global, d1, e1, p1, f1)
             a12 == ActivateMaps(a1.acts, a1.p2d, a1.eff, global, d2, e2, p2, f2)
             a2 == ActivateMaps(activations, pidToDirs, effective, global, d2, e2, p2, f2)
             a21 == ActivateMaps(a2.acts, a2.p2d, a2.eff, global, d1, e1, p1, f1)
         IN /\ a12.err = "nil" /\ a21.err = "nil"
            /\ a12.eff = a21.eff
            /\ a12.eff = Overlay(a12.acts, global)
            /\ \A n \in f1 : a12.eff[n].src = d1
            /\ \A n \in f2 : a12.eff[n].src = d2
\* Two activations with disjoint files are in the ledger, one overriding a
\* global file, the other contributing a file of its own.
C13_Witness ==
  /\ \A d \in Dirs : activations[d] # NoAct /\ activations[d].overrides # {}
  /\ ~Conflict(activations)
  /\ \E n \in global : effective[n].src # 0
  /\ \E n \in DOMAIN effective : n \notin global

\* C14, as stated: no activation in the ledger has an empty session set.
C14_NoEmptySessionSet ==
  \A d \in Dirs : activations[d] # NoAct => activations[d].sessions # {}
\* C14, amended: no operation leaves in the ledger an activation whose
\* session set it has emptied.  An activation with an empty session set is
\* there only because a successful Activate that tracked no session made it
\* for a directory that was not active, and it stays without sessions until
\* it is re-activated or removed.
C14_EmptyOnlyWithoutSession ==
  [][\A d \in Dirs :
       (activations'[d] # NoAct /\ activations'[d].sessions = {}) =>
         \/ activations[d] # NoAct /\ activations[d].sessions = {}
         \/ /\ activations[d] = NoAct
            /\ last'.op = "Activate" /\ last'.err = "nil"
            /\ pidToDirs' = pidToDirs]_vars
\* RemoveSession has just removed an activation whose last session left,
\* next to one made without a session.
C14_Witness ==
  /\ last.op = "RemoveSession" /\ last.err = "nil"
  /\ \E d \in Dirs : activations[d] # NoAct /\ activations[d].sessions = {}

\* C15: Deactivate(dir, 0) on an active dir removes the activation however
\* many sessions reference it, takes dir out of the pidToDirs entry of each
\* of them, drops the pids left without a directory, and touches nothing
\* else.
C15_ForceDeactivate ==
  [][\A dir \in Dirs :
       (activations[dir] # NoAct /\ Deactivate(dir, 0)) =>
         /\ activations'[dir] = NoAct
         /\ \A d \in Dirs \ {dir} : activations'[d] = activations[d]
         /\ DOMAIN pidToDirs' = {p \in DOMAIN pidToDirs : pidToDirs[p] \ {dir} # {}}
         /\ \A p \in DOMAIN pidToDirs' : pidToDirs'[p] = pidToDirs[p] \ {dir}
         /\ \A p \in activations[dir].sessions :
              p \in DOMAIN pidToDirs' => dir \notin pidToDirs'[p]
         /\ last'.err = "nil"]_vars
\* Deactivate(dir, 0) has just removed an activation that several sessions
\* referenced, and none of them is tracked any more.
C15_Witness ==
  /\ last.op = "Deactivate" /\ last.auto = "forced" /\ last.err = "nil"
  /\ DOMAIN pidToDirs = {}
  /\ \E d \in Dirs : activations[d] = NoAct

\* C16, as stated: a successful Activate of a directory that is already
\* active keeps the sessions of its activation, adding pid when pid > 0,
\* leaves the number of activations unchanged, and replaces the env and the
\* files of the activation.
C16_ReactivateKeepsCount ==
  [][\A dir \in Dirs, env \in Envs, pid \in 0..MaxPid, files \in SUBSET Names :
       (activations[dir] # NoAct /\ Activate(dir, env, pid, files) /\ last'.err = "nil") =>
         /\ activations'[dir].sessions =
              activations[dir].sessions \cup (IF pid > 0 THEN {pid} ELSE {})
         /\ Cardinality(ActiveDirs(activations')) = Cardinality(ActiveDirs(activations))
         /\ activations'[dir].env = env
         /\ activations'[dir].overrides = files]_vars
\* C16, amended: such an Activate keeps the sessions, adding pid when
\* pid > 0, replaces the env and the files, and adds no activation: the
\* directories active afterwards are the ones active before, less those that
\* pid alone referenced (auto-deactivation).  When it fails with a conflict
\* the previous activation of the directory is back as it was.
C16_ReactivateInPlace ==
  [][\A dir \in Dirs, env \in Envs, pid \in 0..MaxPid, files \in SUBSET Names :
       (activations[dir] # NoAct /\ Activate(dir, env, pid, files)) =>
         IF last'.err = "nil"
           THEN /\ activations'[dir].sessions =
                     activations[dir].sessions \cup (IF pid > 0 THEN {pid} ELSE {})
                /\ activations'[dir].env = env
                /\ activations'[dir].overrides = files
                /\ ActiveDirs(activations') =
                     ActiveDirs(activations) \
                       {d \in Dirs \ {dir} : activations[d] # NoAct /\ pid > 0
                                             /\ activations[d].sessions = {pid}}
           ELSE activations'[dir] = activations[dir]]_vars
\* A session has just re-activated a directory that another session holds,
\* leaving the directory it alone referenced.
C16_Witness ==
  /\ last.op = "Activate" /\ last.err = "nil" /\ last.auto = "dropped"
  /\ \E d \in Dirs :
       /\ activations[d] # NoAct /\ Cardinality(activations[d].sessions) = 2
       /\ \A e \in Dirs \ {d} : activations[e] = NoAct

\* C17: after a Deactivate that removes an activation, the effective set
\* has none of the files that only this activation contributed, each
\* global file it overrode has its global definition again, and the files
\* that the remaining activations contribute are as they were.
C17_DeactivateRestores ==
  [][\A dir \in Dirs, pid \in 0..MaxPid :
       (activations[dir] # NoAct /\ Deactivate(dir, pid) /\ activations'[dir] = NoAct) =>
         /\ \A n \in activations[dir].overrides \ global : n \notin DOMAIN effective'
         /\ \A n \in activations[dir].overrides \cap global :
              /\ n \in DOMAIN effective'
              /\ effective'[n] = [src |-> 0, env |-> FilterEnv(FileCfg(n), GlobalEnv(activations'))]
         /\ \A d \in ActiveDirs(activations') : \A n \in activations'[d].overrides :
              /\ n \in DOMAIN effective'
              /\ effective'[n] = effective[n]
              /\ effective'[n].src = d]_vars
\* A Deactivate has just removed an activation that overrode a global file
\* and contributed a file of its own, while another activation stays.
C17_Witness ==
  /\ last.op = "Deactivate" /\ last.err = "nil"
  /\ last.had \cap global # {} /\ last.had \ global # {}
  /\ \A n \in last.had \cap global : effective[n].src = 0
  /\ \A n \in last.had \ global : n \notin DOMAIN effective
  /\ ActiveDirs(activations) # {}

\* C18: for an entry with TTL T > 0 and age a exactly one of Fresh, Stale
\* and Expired holds: Fresh iff a < T, Stale iff T <= a < 2T, Expired iff
\* a >= 2T.
C18_StatesPartition ==
  probe.asked =>
    /\ probe.fresh <=> probe.age < probe.ttl
    /\ probe.stale <=> (probe.ttl <= probe.age /\ probe.age < 2 * probe.ttl)
    /\ probe.expired <=> probe.age >= 2 * probe.ttl
    /\ Cardinality({x \in {"fresh", "stale", "expired"} : probe[x]}) = 1

\* C19: the hooks one Dispatch invokes are every prologue in registration
\* order, then in registration order each rule whose Match is nil or
\* answers true, up to and including the first such rule of kind Kill; the
\* kill function, if the dispatcher has one, is invoked exactly once for
\* that rule and never otherwise.  At every moment what has been invoked so
\* far is a prefix of that sequence.
Matches(j) == dispatcher.rules[j].match # "false"
FirstKill ==
  LET ks == {j \in 1..Len(dispatcher.rules) :
               Matches(j) /\ dispatcher.rules[j].kind = "Kill"}
  IN IF ks = {} THEN Len(dispatcher.rules) + 1
     ELSE CHOOSE j \in ks : \A k \in ks : j <= k
ExpectedHooks ==
  LET pro == [i \in 1..dispatcher.prologue |-> [hook |-> "prologue", idx |-> i]]
      idx == [j \in 1..Len(dispatcher.rules) |-> j]
      run == SelectSeq(idx, LAMBDA j : Matches(j) /\ j <= FirstKill)
  IN pro \o [k \in 1..Len(run) |-> [hook |-> "rule", idx |-> run[k]]]
Invoked ==
  [k \in 1..Len(dispatch.trace) |->
     [hook |-> dispatch.trace[k].hook, idx |-> dispatch.trace[k].idx]]
C19_DispatchOrder ==
  /\ Len(Invoked) <= Len(ExpectedHooks)
  /\ Invoked = SubSeq(ExpectedHooks, 1, Len(Invoked))
  /\ dispatch.pc = "done" =>
       /\ Invoked = ExpectedHooks
       /\ dispatch.kills =
            IF dispatcher.kill /\ FirstKill <= Len(dispatcher.rules) THEN 1 ELSE 0
  /\ dispatch.kills <= 1
  /\ \A k \in 1..Len(dispatch.trace) :
       dispatch.trace[k].did = "kill" => k = Len(dispatch.trace)
\* A Dispatch has returned after two prologues and a Kill rule that
\* matched: a rule before it that did not match was skipped, a matching rule
\* after it did not run, and the kill function was called once.
C19_Witness ==
  /\ dispatch.pc = "done" /\ dispatcher.prologue = 2 /\ dispatch.kills = 1
  /\ Len(dispatcher.rules) = 3
  /\ dispatcher.rules[1].match = "false"
  /\ dispatcher.rules[2].kind = "Kill" /\ dispatcher.rules[2].match = "nil"
  /\ dispatcher.rules[3].match = "true"
  /\ Len(dispatch.trace) = 3

\* C20: on every control connection the peer check comes first: nothing is
\* read from the connection and neither the Context Manager nor the cache
\* is touched before it.  A connection whose peer does not have the
\* daemon's UID is closed by the check: none of its steps reads a request
\* or changes the shared state, and the shared state only ever changes in
\* the handler of a connection that passed the check.
C20_PeerCheckFirst ==
  [][\A c \in Conns :
       conns'[c] # conns[c] =>
         /\ \A k \in 1..Len(conns'[c].trace) :
              conns'[c].trace[k] \in {"read", "touch"} =>
                k > 1 /\ conns'[c].trace[1] = "verify"
         /\ (conns[c].pc # "none" /\ conns[c].peer # "same") =>
              /\ UNCHANGED <<ctxVars, resVars>>
              /\ conns'[c].pc \in {"closed", "none"}
              /\ \A k \in 1..Len(conns'[c].trace) :
                   conns'[c].trace[k] \notin {"read", "touch"}
         /\ (<<ctxVars, resVars>>' # <<ctxVars, resVars>>) =>
              /\ conns[c].peer = "same"
              /\ conns[c].pc \in {"dispatch", "call"}
              /\ SubSeq(conns[c].trace, 1, 2) = <<"verify", "read">>]_vars
\* One connection from another UID has been closed by the check while
\* another, from the daemon's UID, has had its activate request served.
C20_Witness ==
  \E c1, c2 \in Conns :
    /\ conns[c1].pc = "closed" /\ conns[c1].peer = "other"
    /\ conns[c1].trace = <<"verify", "close">>
    /\ conns[c2].pc = "closed" /\ conns[c2].peer = "same" /\ conns[c2].req = "activate"
    /\ conns[c2].trace = <<"verify", "read", "touch", "close">>
    /\ ActiveDirs(activations) # {}

\* C21: never more than 16 connection handlers run, and a connection
\* accepted while 16 run is closed by Serve itself: it gets no handler, so
\* its request is neither read nor dispatched.
C21_HandlerCap ==
  /\ [](Running(handlers) <= 16 /\ sem = Running(handlers))
  /\ [][(accepted' # NoAccept /\ Running(handlers) = 16) =>
          /\ accepted'.how = "rejected"
          /\ accepted'.trace = <<"close">>
          /\ UNCHANGED <<sem, handlers>>]_vars
\* A connection has just been turned away with 16 handlers running, some
\* of them in the middle of a request.
C21_Witness ==
  /\ accepted.how = "rejected"
  /\ Running(handlers) = 16
  /\ handlers["dispatch"] > 0

\* C22 (as claimed): Listen never steals a live socket.  A Listen that
\* finds a daemon listening on the path returns an error and leaves the
\* file in place, and Listen removes a socket file only when no daemon is
\* listening on it.
C22_NeverStealsLiveSocket ==
  [][\A d \in Daemons :
       /\ (LsnDial(d) /\ Live(sockFile, listening)) =>
            lpc'[d] = "err" /\ sockFile' = sockFile
       /\ LsnRemove(d) => ~Live(sockFile, listening)]_vars

\* C23: a reload that finds the config file unreadable, unparsable or
\* invalid returns with the watcher's current config as it was and without
\* calling the reload callback; the callback is only ever called by a
\* reload that loaded a valid config, and the reload that next loads a
\* valid, changed config diffs it against the config that was kept.
C23_FailedReloadKeepsConfig ==
  [][\A r \in Reloaders :
       /\ (ReloadLoad(r) /\ cfgDisk.kind # "ok") =>
            /\ cfgCurrent' = cfgCurrent
            /\ reloads'[r].pc = "idle"
            /\ cfgCall'.how = "failed"
       /\ (ReloadCallback(r) \/ ReloadCommit(r)) => reloads[r].new \in Cfgs
       /\ (ReloadCommit(r) /\ cfgCall'.how = "assigned") =>
            /\ cfgCall'.old = cfgCurrent
            /\ reloads'[r].old = cfgCurrent
            /\ cfgCurrent' = reloads[r].new]_vars
\* A reload has failed on a broken file, and the reload of the valid
\* config written after it has been diffed against the initial config.
C23_Witness ==
  /\ cfgCall.how = "assigned"
  /\ cfgCall.afterFail
  /\ cfgCall.old = 1
  /\ cfgCall.new = 2
  /\ cfgCurrent = 2

\* C24: when a reconcile that found file F no longer effective is over, no
\* file is at the path of F; when the teardown is over, no file is on the
\* RAM disk; and no file ever leaves the RAM disk before its bytes were
\* overwritten with zeros.
C24_ScrubLeavesNothing ==
  [][/\ (TmpfsRenderEnd /\ mpc = "reconcileRender") =>
          \A F \in departed : disk'[F] = NoFile
     /\ TmpfsUnmount => \A n \in Names : disk'[n] = NoFile
     /\ \A n \in Names :
          (disk[n] # NoFile /\ disk'[n] = NoFile) => disk[n] = ZeroFile]_vars

\* What C25 says of a finished reconcile, todo being the effective file
\* set the reconcile read: the files with a live serve task are these
\* files; each of them has its FIFO and one task; a file that departed has
\* lost its task, its cancel function and its FIFO; a file that stayed has
\* the task it had.
ReconcileDone == FifoReconcile
FifoSetIsEffective ==
  LET files == todo IN
    /\ {n \in Names : tasks'[n] > 0} = files
    /\ \A n \in files : tasks'[n] = 1 /\ n \in pipes' /\ n \in fifos' /\ n \in cancels'
    /\ \A n \in fifos \ files :
         tasks'[n] = 0 /\ n \notin pipes' /\ n \notin fifos' /\ n \notin cancels'
    /\ \A n \in fifos \cap files : tasks'[n] = tasks[n]

\* C25 (as claimed): after every FIFO reconcile, no filesystem operation
\* having failed, the FIFOs with a live serve task are the effective file
\* set the reconcile read: departed files have their task cancelled and
\* their FIFO removed, new files have a FIFO and exactly one task, the
\* others keep theirs.
C25_FifoSetIsEffective ==
  [][(ReconcileDone /\ fifoErrs' = {}) => FifoSetIsEffective]_vars
\* C25, amended: so it is after every reconcile that completes before the
\* context of Mount is cancelled.
C25_FifoSetIsEffectiveUntilCancel ==
  [][(ReconcileDone /\ fifoErrs' = {} /\ ~ctxDone) => FifoSetIsEffective]_vars
\* A reconcile has run, before any cancellation, that removed the FIFO of
\* npmrc and cancelled its task, and kept netrc's.
C25_Witness ==
  /\ backend = "fifo" /\ mpc = "select" /\ ~ctxDone /\ fifoErrs = {}
  /\ fifos = {"netrc"} /\ pipes = {"netrc"} /\ cancels = {"netrc"}
  /\ tasks["netrc"] = 1 /\ tasks["npmrc"] = 0
  /\ "npmrc" \in lingering

\* The teardown of Mount has run.  fifo: every task is cancelled, both maps
\* are empty and every FIFO is removed.  tmpfs: every rendered file is
\* scrubbed, so that no file is left on the RAM disk and none has left it
\* without having been zeroed, and the mount is released.
TornDown ==
  /\ mpc = "returned"
  /\ backend = "fifo" =>
       /\ fifos = {} /\ cancels = {}
       /\ \A n \in Names : tasks[n] = 0
       /\ pipes = {}
  /\ backend = "tmpfs" =>
       /\ toScrub = {}
       /\ \A n \in Names : disk[n] = NoFile
       /\ rawRemoved = {}
       /\ ~mounted

\* C26: the Mount of the fifo and of the tmpfs backend returns nil only
\* once its context is cancelled and its teardown has run, every FIFO
\* removed, or every rendered file scrubbed and the mount released; and a
\* Mount that has set its presentation up returns nil, in the end, once its
\* context is cancelled.
C26_MountReturnsAfterCancel ==
  /\ [](mret = "nil" => ctxDone /\ TornDown)
  /\ [](mpc \notin {"idle", "returned"} => mret = "none")
  /\ ((ctxDone /\ mpc \notin {"idle", "returned"}) ~> (mret = "nil"))

\* C27: a call of Setup or ReconcileWithConfig that returns the conflict
\* error of error mode leaves the file system and the manager's map as they
\* were before the call.
C27_ConflictLeavesStateUnchanged ==
  [][(slret'.op \in {"setup", "reconcile"} /\ slret'.err = "conflict")
       => (fsys' = fsys /\ managed' = managed)]_vars

\* The one file of a configuration that has a link.
OnlyLinked(files) == CHOOSE n \in Names : files[n] # NoLink

\* C28: a Setup over a configuration with one linked file does, by what is
\* at the link path before the call: a directory, fail and leave it; a
\* symlink into the mount point, replace it; a foreign symlink or a regular
\* file, fail in error mode and leave it, or in backup mode move it to the
\* backup path and create the link; nothing, create the link.  The link is
\* recorded as managed exactly when it was created.
C28_SetupConflictMatrix ==
  [][(/\ slret'.op = "setup"
      /\ Cardinality({n \in Names : slret'.files[n] # NoLink}) = 1) =>
         LET files == slret'.files
             conflict == slret'.conflict
             name == OnlyLinked(files)
             link == files[name]
             e == fsys[link]
             created == /\ slret'.err = "nil"
                        /\ fsys'[link] = Link(name)
                        /\ managed' = [managed EXCEPT ![name] = link]
             kept == \A p \in Paths \ {link} : fsys'[p] = fsys[p]
             refused == /\ slret'.err # "nil"
                        /\ fsys' = fsys
                        /\ managed' = managed
         IN CASE e.kind = "dir" -> refused
              [] e.kind = "none" -> created /\ kept
              [] e.kind = "symlink" /\ e.dest # Elsewhere -> created /\ kept
              [] OTHER ->
                   IF conflict = "error" THEN refused
                   ELSE /\ created
                        /\ fsys'[BackupPath(link)] = e
                        /\ \A p \in Paths \ {link, BackupPath(link)} :
                             fsys'[p] = fsys[p]]_vars

\* Setup in backup mode has moved a regular file to its backup path and put
\* the link in its place.
C28_Witness ==
  /\ slret.op = "setup" /\ slret.conflict = "backup" /\ slret.err = "nil"
  /\ \E n \in Names :
       /\ slret.files[n] # NoLink
       /\ \A o \in Names \ {n} : slret.files[o] = NoLink
       /\ fsys[slret.files[n]] = Link(n)
       /\ fsys[BackupPath(slret.files[n])] = File(1)
       /\ managed[n] = slret.files[n]

\* The keys of all inputs.
KeyOf == [in \in CacheInputs |-> ComputeCacheKey(in)]

\* Two inputs of the same mode that differ in the template content, the
\* command, the arguments or the environment.
Differ(a, b) ==
  /\ a.cfg.mode = b.cfg.mode
  /\ \/ a.cfg.content # b.cfg.content
     \/ a.cfg.command # b.cfg.command
     \/ a.cfg.args # b.cfg.args
     \/ a.env # b.env

\* The key computed is the key of the same file and environment under every
\* iteration order of the env map.
OrderFree ==
  (fpDone /\ fpKey.err = "nil") =>
    \A other \in CacheInputs :
      (other.cfg = fpIn.cfg /\ other.env = fpIn.env) => KeyOf[other].Hash = fpKey.Hash

\* The key computed is the key of no input that differs and has a key.
Sensitive ==
  (fpDone /\ fpKey.err = "nil") =>
    \A other \in CacheInputs :
      (Differ(fpIn, other) /\ KeyOf[other].err = "nil") => KeyOf[other].Hash # fpKey.Hash

\* C29: the fingerprint is the same for every iteration order of the env
\* map, and differs whenever the template content, the command, the
\* arguments or an env value differs.
C29_OrderFreeAndSensitive == OrderFree /\ Sensitive

\* While the callback runs the reader-writer lock is free.
CallbackOutsideMu == wpc = "callback" => ~muW

\* The map the callback runs with is the effective set this call committed:
\* the one installed at the last mu.Unlock, recomputed from the activations
\* committed with it, and still the manager's.
CallbackGetsCommitted ==
  wpc = "callback" =>
    /\ call.arg = committed[2]
    /\ call.arg = RecomputeOrNil(committed[1], global)
    /\ call.arg = effective

\* C30: while the on-change callback runs neither mu nor activateMu is held,
\* and the map it runs with is the effective set committed by the mutation.
C30_CallbackOutsideLocks ==
  /\ CallbackOutsideMu
  /\ wpc = "callback" => ~activateMu
  /\ CallbackGetsCommitted

\* C31: no goroutine that holds mu is at activateMu.Lock, a goroutine that
\* holds mu for writing holds activateMu, no goroutine holds the cache lock
\* together with activateMu or mu or is at the Lock of one while it holds
\* the other, and whenever a call is under way some goroutine can complete
\* its next lock operation.
C31_LockOrder ==
  /\ \A t \in Threads :
       /\ (Busy(t) /\ NextOp(t) = Lock("activateMu")) => "mu" \notin HeldLocks(t)
       /\ [lock |-> "mu", mode |-> "w"] \in Held(t) => "activateMu" \in HeldLocks(t)
       /\ HeldLocks(t) \cap CacheLocks # {} => HeldLocks(t) \cap ContextLocks = {}
       /\ (Busy(t) /\ NextOp(t).op \in {"Lock", "RLock"}) =>
            /\ NextOp(t).lock \in CacheLocks => HeldLocks(t) \cap ContextLocks = {}
            /\ NextOp(t).lock \in ContextLocks => HeldLocks(t) \cap CacheLocks = {}
  /\ (\E t \in Threads : Busy(t)) => \E t \in Threads : Busy(t) /\ CanTake(t)

\* A writer holds activateMu and mu, a reader waits at mu.RLock and a third
\* goroutine holds the cache lock for writing.
C31_Witness ==
  \E t, u, v \in Threads :
    /\ Held(t) = {[lock |-> "activateMu", mode |-> "w"], [lock |-> "mu", mode |-> "w"]}
    /\ Busy(u) /\ NextOp(u) = RLock("mu") /\ ~CanTake(u)
    /\ [lock |-> "cache", mode |-> "w"] \in Held(v)

\* C32: the names in the refreshing set are those with a refresh goroutine
\* under way, and every refresh that is started finishes and takes its name
\* out of the set, whether its render or its Put failed or not; from then
\* on asyncRefresh starts a new one for the name.
C32_RefreshFinishes ==
  /\ [](\A n \in Names : n \in refreshing <=> refreshers[n] # NoRef)
  /\ [](\A n \in Names : n \notin refreshing => ShouldSpawn(refreshing, n))
  /\ \A n \in Names : (n \in refreshing) ~> (n \notin refreshing)

\* A refresh whose render failed is about to finish.
C32_Witness ==
  \E n \in Names :
    /\ n \in refreshing
    /\ refreshers[n].pc = "finish"
    /\ refreshers[n].content = -1

\* C33: pid is in the session set of dir exactly when dir is in
\* pidToDirs[pid], every directory listed in pidToDirs has an activation, no
\* pid maps to an empty directory set, and TrackedPIDs is the set of the
\* pids that occur in some session set.
C33_SessionMapsAgree ==
  /\ \A pid \in Pids, dir \in Dirs :
       (activations[dir] # NoAct /\ pid \in activations[dir].sessions)
         <=> dir \in P2DGet(pidToDirs, pid)
  /\ \A pid \in DOMAIN pidToDirs :
       /\ pidToDirs[pid] # {}
       /\ \A dir \in pidToDirs[pid] : activations[dir] # NoAct
  /\ \A dir \in Dirs : activations[dir] # NoAct => activations[dir].sessions \subseteq Pids
  /\ TrackedPIDs =
       {pid \in Pids : \E dir \in Dirs :
          activations[dir] # NoAct /\ pid \in activations[dir].sessions}

\* An Activate that failed with a conflict took the pid out of the
\* activation it was in, which another session keeps alive.
C33_Witness ==
  /\ last.op = "Activate"
  /\ last.err = "conflict"
  /\ last.auto = "kept"
  /\ \E dir \in Dirs : activations[dir] # NoAct /\ activations[dir].sessions # {}
  /\ \E pid \in Pids : pid \notin TrackedPIDs

\* C34: a session pid is in the session set of at most one activation and
\* pidToDirs[pid] holds at most one directory, in every state reached by
\* Activate, Deactivate, RemoveSession and the reaper's sweeps, the
\* activations that fail with a conflict included.
C34_OneDirPerPid ==
  \A pid \in Pids :
    /\ Cardinality(P2DGet(pidToDirs, pid)) <= 1
    /\ Cardinality({dir \in Dirs : activations[dir] # NoAct
                                    /\ pid \in activations[dir].sessions}) <= 1

\* An Activate from a pid that shared an activation with another session
\* failed with a conflict: the other session is tracked in its one
\* directory.
C34_Witness ==
  /\ last.op = "Activate"
  /\ last.err = "conflict"
  /\ last.auto = "kept"
  /\ \E pid \in Pids : Cardinality(P2DGet(pidToDirs, pid)) = 1

\* What the backend presents is the effective set: the RAM disk holds a
\* rendered file for each effective name and for no other, with the content
\* of the effective file; the FIFO backend has a FIFO for each effective
\* name and for no other.
Converged ==
  /\ backend = "tmpfs" =>
       /\ rendered = DOMAIN effective
       /\ \A n \in Names : disk[n] = Want(effective, n)
  /\ backend = "fifo" => fifos = DOMAIN effective

\* C35: if the effective set stops changing, then from some point on the
\* file set of the RAM disk and of the FIFO backend is the effective set
\* committed last, although Reconfigure drops a signal when one is pending.
C35_BackendsConverge ==
  (<>[][FALSE]_effective) => <>[]Converged

\* C36: at most one on-change callback runs at a time; a callback that
\* starts carries the effective set committed last, so none carries an
\* older set than one started before it; and when every call has returned,
\* the set the last callback was given is the manager's effective set.
C36_CallbacksInCommitOrder ==
  /\ Cardinality(running) <= 1
  /\ \A t \in running : marg[t].ver = commits /\ marg[t].eff = effective
  /\ applied # NoArg => applied.ver <= commits
  /\ (\A t \in Mutators : cbpc[t] = "idle") =>
       /\ applied.ver = commits
       /\ commits > 0 => applied.eff = effective

\* A callback runs with the set of the second commit while another
\* goroutine waits for activateMu.
C36_Witness ==
  \E t, u \in Mutators :
    /\ t # u
    /\ t \in running
    /\ marg[t].ver = 2
    /\ cbpc[u] = "idle"
    /\ applied.eff = effective
    /\ DOMAIN effective # GlobalFiles

\* C37: a Resolve whose cache.Get returns an entry of age 2*TTL or more
\* takes the miss path, where the file is rendered synchronously; only a
\* Resolve on the fresh or the stale path decrypts the entry it got, and a
\* result that comes from the cache comes from one of these two paths.
C37_ExpiredIsMiss ==
  /\ [][\A r \in Resolvers :
          (rs[r].pc = "get" /\ rs'[r].pc # "get"
             /\ CacheGet(entries, rs[r].key) # NoEntry
             /\ CacheGet(entries, rs[r].key).age >= 2 * TTL)
          => (rs'[r].pc = "render" /\ rs'[r].path = "miss" /\ ~rs'[r].live)]_vars
  /\ [](\A r \in Resolvers :
          /\ rs[r].pc \in {"asyncRefresh", "decrypt"} => rs[r].path \in {"fresh", "stale"}
          /\ rs[r].res.src = "cache" => rs[r].path \in {"fresh", "stale"}
          /\ (rs[r].path = "miss" /\ rs[r].res.ok) => rs[r].res.src = "render")

\* A Resolve has found an entry that is expired and that the reaper has not
\* evicted, and is about to render.
C37_Witness ==
  \E r \in Resolvers :
    /\ rs[r].pc = "render"
    /\ rs[r].path = "miss"
    /\ CacheGet(entries, rs[r].key) # NoEntry
    /\ Expired(CacheGet(entries, rs[r].key))

\* No reload is under way.
Quiesced == \A r \in Reloaders : reloads[r].pc = "idle"

\* C38: the Dispatch calls start in the order of the watcher's commits, and
\* when no reload is under way the resolver, the backend and currentCfg
\* hold the watcher's current config.
C38_ReloadsInCommitOrder ==
  /\ \A i, j \in 1..Len(dispatched) : i < j => dispatched[i] < dispatched[j]
  /\ Quiesced => \A h \in DOMAIN held : held[h] = cfgCurrent

\* C39: when a restart of the mount backend has set the symlinks up again
\* and no callback and no reload is under way, every file of the effective set that
\* configures a symlink, a project's files included, has its managed link
\* in place, pointing into the mount point of the new config.
C39_RestartRestoresLinks ==
  (loop = "mounted" /\ slret.op = "setup" /\ slret.err = "nil" /\ cbArg = NoCb
   /\ NoReloading) =>
    \A n \in DOMAIN effective :
      /\ managed[n] = SymlinkOf(n)
      /\ fsys[SymlinkOf(n)] = LinkInto(loopCfg.mp, n)

\* C40: when the shutdown after SIGINT or SIGTERM is over, the handler
\* having cleaned up and cancelled and runForeground having returned, the
\* symlink manager manages no link and no symlink is left at a link path;
\* stated for the shutdowns that end with the config the daemon started
\* with, no restart signalled and no reload under way.
C40_ShutdownLeavesNoLink ==
  (sigpc = "done" /\ loop = "exited" /\ currentCfg = DmCfg0 /\ cwCurrent = DmCfg0
   /\ restartCh = 0 /\ NoReloading) =>
    /\ \A n \in Names : managed[n] = NoLink
    /\ \A p \in LinkPaths : fsys[p].kind # "symlink"
====
